---------------------------- MODULE Spec2Model ----------------------------
(***************************************************************************)
(* TLA+ model of the Advanced-Explorer python backend:                     *)
(*   database.py     DatabaseManager  - the FTS5 store on ONE shared       *)
(*                   sqlite3 connection (check_same_thread=False)          *)
(*   indexer.py      FileIndexer      - start/stop, the indexing worker,   *)
(*                   the retry worker                                      *)
(*   file_watcher.py IndexedFileWatcher - filesystem event handlers        *)
(*   server.py / search.py            - the request threads                *)
(*                                                                         *)
(* Every thread talks to the store through the same connection, so the     *)
(* connection's transaction state (inTxn) and its uncommitted view (rows)  *)
(* are shared by all of them; disk is what has been committed.  A store    *)
(* method is executed one SQL statement per step.                          *)
(***************************************************************************)
EXTENDS Integers, Sequences, FiniteSets, TLC

(***************************************************************************)
(* Bounds of the model.                                                    *)
(***************************************************************************)
MaxRows   == 3    \* rows the FTS table may hold
MaxFaults == 1    \* sqlite3.Error faults injected into write statements
MaxFsOps  == 2    \* changes the user makes to the file tree
MaxStarts == 2    \* start requests (POST /api/indexing/start)
MaxApi    == 1    \* other requests served (search, stop, gc, clear)
MaxNow    == 1    \* clock ticks (one tick = one tombstone-gc "day")
MaxMtime  == 2    \* file mtimes range over 0..MaxMtime ticks
MaxCycles == 1    \* wake-ups of the retry worker
MaxCalls  == 2    \* store methods called by the clients of SpecStore

(***************************************************************************)
(* Program constants.                                                      *)
(***************************************************************************)
BATCH_SIZE    == 2            \* indexer.py:1138  batch_size = 2
MAX_FILE_SIZE == 104857600    \* indexer.py:132   100 * 1024 * 1024
TicksPerSec   == 2            \* an mtime tick is half a second
Null          == 0 - 1        \* SQL NULL / Python None for timestamps

Paths   == {"a", "b"}
Roots   == {"R", "S"}
\* the files below each root: S is a directory nested inside R
Under(r) == IF r = "R" THEN {"a", "b"} ELSE {"b"}
\* os.walk lists a directory's own files before it descends: R yields a, b
WalkOrder(r) == IF r = "R" THEN <<"a", "b">> ELSE <<"b">>
RootLists == {<<"R">>, <<"S">>, <<"S", "R">>}

Workers == {"w1", "w2"}
Threads == Workers \cup {"retry", "watch", "api"}

Tokens  == {"x", "y"}
Texts   == {<<"x">>, <<"x", "y">>}
Mtimes  == 0..MaxMtime
Sizes   == {MAX_FILE_SIZE, MAX_FILE_SIZE + 1}
\* what extraction of the file does: text comes back, an empty string comes
\* back, the safe copy fails (file held open), or the parser runs past the
\* timeout
FileKinds == {"ok", "empty", "locked", "slow"}

VARIABLES
  rows,             \* files_fts as the shared connection sees it (rowid order)
  disk,             \* files_fts as committed
  inTxn,            \* the connection has an open transaction
  call,             \* per thread: the DatabaseManager method it is inside
  fs,               \* the file tree
  now,              \* datetime.now()
  is_running,       \* FileIndexer.is_running
  stop_flag,        \* FileIndexer.stop_flag
  current_thread,   \* FileIndexer.current_thread
  retry_stop_flag,  \* FileIndexer.retry_stop_flag
  stats,            \* FileIndexer.stats
  skipped_files,    \* FileIndexer.skipped_files, in insertion order
  wk,               \* per indexing-worker thread: its locals
  rt,               \* the retry worker thread
  wt,               \* the watchdog observer: watched roots, queue, handler
  api,              \* the request thread
  hist,             \* history: what the last batch and the last search saw
  mon,              \* FileIndexer.activity_monitor and enable_activity_monitor
  conn,             \* DatabaseManager.conn: open, or None after close()
  auto,             \* FileIndexer: the auto-indexing thread, its flag and switch
  cand,             \* a file name, and what crawler and watcher decided on it
  ex,               \* _extract_text_safe calls, their threads and temp directories
  nFault, nFs, nStart, nApi, nCycle, nCall   \* what is left of each budget

dbvars  == <<rows, disk, inTxn>>
idxvars == <<is_running, stop_flag, current_thread, retry_stop_flag, stats,
             skipped_files, mon>>
cntvars == <<nFault, nFs, nStart, nApi, nCycle, nCall>>
vars == <<rows, disk, inTxn, call, fs, now, is_running, stop_flag,
          current_thread, retry_stop_flag, stats, skipped_files, wk, rt, wt,
          api, hist, mon, conn, cand, ex, auto, nFault, nFs, nStart, nApi, nCycle, nCall>>

(***************************************************************************)
(* Sequence helpers.                                                       *)
(***************************************************************************)
Range(s) == {s[i] : i \in DOMAIN s}

Abs(n) == IF n < 0 THEN 0 - n ELSE n

Min(m, n) == IF m < n THEN m ELSE n

Take(s, n) == SubSeq(s, 1, Min(n, Len(s)))

\* t occurs in s as a contiguous run
IsSubstring(t, s) ==
  \E i \in 0..Len(s) : i + Len(t) <= Len(s) /\ SubSeq(s, i + 1, i + Len(t)) = t

(***************************************************************************)
(* database.py: the rows of files_fts.                                     *)
(***************************************************************************)
\* str(mtime) as written to the UNINDEXED text column, float(row['mtime'])
\* as read back
MtimeStr(m) == <<"str", m>>
MtimeFloat(s) == s[2]

\* tag is bookkeeping, not a column: it names the thread whose unfinished
\* insert_files_batch call wrote the row ("" otherwise)
NewRowTagged(p, c, m, tg) ==
  [path |-> p, content |-> c, mtime |-> MtimeStr(m), deleted |-> "0",
   deleted_at |-> Null, tag |-> tg]

NewRow(p, c, m) == NewRowTagged(p, c, m, "")

Untag(rs, t) ==
  [i \in DOMAIN rs |-> IF rs[i].tag = t THEN [rs[i] EXCEPT !.tag = ""] ELSE rs[i]]

TaggedCount(rs, t) == Cardinality({i \in DOMAIN rs : rs[i].tag = t})

\* INSERT INTO files_fts (...) VALUES (?, ?, ?, '0', NULL)
SqlInsert(rs, p, c, m) == Append(rs, NewRow(p, c, m))

\* UPDATE files_fts SET content, mtime, deleted = '0', deleted_at = NULL WHERE path = ?
SqlUpdate(rs, p, c, m) ==
  [i \in DOMAIN rs |->
     IF rs[i].path = p
     THEN [rs[i] EXCEPT !.content = c, !.mtime = MtimeStr(m), !.deleted = "0",
                        !.deleted_at = Null]
     ELSE rs[i]]

\* cursor.rowcount of an UPDATE ... WHERE path = ?
RowCount(rs, p) == Cardinality({i \in DOMAIN rs : rs[i].path = p})

\* UPDATE files_fts SET deleted = '1', deleted_at = ? WHERE path = ?
SqlMark(rs, p, ts) ==
  [i \in DOMAIN rs |->
     IF rs[i].path = p THEN [rs[i] EXCEPT !.deleted = "1", !.deleted_at = ts]
     ELSE rs[i]]

\* an UPDATE that clears the flag and forgets the timestamp column
UnmarkKeepsTimestamp(rs, p) ==
  [i \in DOMAIN rs |->
     IF rs[i].path = p THEN [rs[i] EXCEPT !.deleted = "0"] ELSE rs[i]]

\* UPDATE files_fts SET deleted = '0', deleted_at = NULL WHERE path = ?
SqlUnmark(rs, p) ==
  [i \in DOMAIN rs |->
     IF rs[i].path = p THEN [rs[i] EXCEPT !.deleted = "0", !.deleted_at = Null]
     ELSE rs[i]]

\* DELETE FROM files_fts WHERE path = ?
SqlDelete(rs, p) == SelectSeq(rs, LAMBDA r : r.path # p)

\* DELETE FROM files_fts WHERE path = ? AND deleted = '1'
SqlDeleteMarked(rs, p) == SelectSeq(rs, LAMBDA r : ~(r.path = p /\ r.deleted = "1"))

LiveRows(rs) == SelectSeq(rs, LAMBDA r : r.deleted = "0")

PathsOf(rs) == [i \in DOMAIN rs |-> rs[i].path]

\* a lookup that never finds the path
MtimeNeverFound(rs, p) == Null

\* SELECT mtime FROM files_fts WHERE path = ? AND deleted = '0'; fetchone()
get_file_mtime(rs, p) ==
  LET hit == SelectSeq(rs, LAMBDA r : r.path = p /\ r.deleted = "0")
  IN  IF hit = <<>> THEN Null ELSE MtimeFloat(hit[1].mtime)

\* SELECT COUNT(*) FROM files_fts WHERE path = ? AND deleted = '0'
is_file_indexed(rs, p) == \E i \in DOMAIN rs : rs[i].path = p /\ rs[i].deleted = "0"

\* SELECT path FROM files_fts WHERE deleted = '0'   (the second definition
\* of get_all_indexed_paths is the one the class ends up with)
get_all_indexed_paths(rs) == PathsOf(LiveRows(rs))

\* SELECT path ... WHERE deleted = '1' AND deleted_at IS NOT NULL
\*   AND CAST(deleted_at AS REAL) < threshold
OldDeleted(rs, threshold) ==
  PathsOf(SelectSeq(rs, LAMBDA r : r.deleted = "1" /\ r.deleted_at # Null
                                   /\ r.deleted_at < threshold))

(***************************************************************************)
(* database.py: search.                                                    *)
(***************************************************************************)
Queries ==
  { [quoted |-> TRUE,  terms |-> <<"x", "y">>],
    [quoted |-> FALSE, terms |-> <<"x">>],
    [quoted |-> FALSE, terms |-> <<"x", "y">>] }
Limits == {1, 100}

\* content LIKE '%phrase%'  /  files_fts MATCH 't1 AND t2 ...'
Matches(content, q) ==
  IF q.quoted THEN IsSubstring(q.terms, content)
  ELSE \A k \in DOMAIN q.terms : q.terms[k] \in Range(content)

\* the rank column: 0 for a phrase query; otherwise the bm25 score, better
\* (lower) the more positions of the document hold a query term and the
\* shorter the document is
Rank(content, q) ==
  IF q.quoted THEN 0
  ELSE Len(content)
       - 3 * Cardinality({i \in DOMAIN content : content[i] \in Range(q.terms)})

RECURSIVE InsertByRank(_, _, _)
InsertByRank(sorted, r, q) ==
  IF sorted = <<>> THEN <<r>>
  ELSE IF Rank(r.content, q) < Rank(Head(sorted).content, q)
       THEN <<r>> \o sorted
       ELSE <<Head(sorted)>> \o InsertByRank(Tail(sorted), r, q)

\* no ORDER BY: the rows as the table holds them
OrderAsStored(rs, q) == rs

RECURSIVE OrderByRank(_, _)
OrderByRank(rs, q) ==
  IF rs = <<>> THEN <<>>
  ELSE InsertByRank(OrderByRank(SubSeq(rs, 1, Len(rs) - 1), q), rs[Len(rs)], q)

SearchWhereNoFilter(rs, q) == SelectSeq(rs, LAMBDA r : Matches(r.content, q))

\* WHERE ... AND deleted = '0'
SearchWhere(rs, q) ==
  SelectSeq(rs, LAMBDA r : Matches(r.content, q) /\ r.deleted = "0")

\* DatabaseManager.search: the rows returned
search(rs, q, limit) ==
  IF q.quoted THEN Take(SearchWhere(rs, q), limit)
  ELSE Take(OrderByRank(SearchWhere(rs, q), q), limit)


(***************************************************************************)
(* The shared sqlite3 connection (isolation_level = "DEFERRED").           *)
(***************************************************************************)
\* BEGIN TRANSACTION, when none is open
TxBegin == inTxn' = TRUE /\ UNCHANGED <<rows, disk>>

\* An INSERT/UPDATE/DELETE.  The sqlite3 module opens a transaction before
\* a DML statement when none is open (implicit); the later rows of an
\* executemany get no such BEGIN and run in autocommit mode.
TxDML(new, implicit) ==
  /\ rows' = new
  /\ IF inTxn \/ implicit
     THEN inTxn' = TRUE /\ disk' = disk
     ELSE inTxn' = FALSE /\ disk' = new

(***************************************************************************)
(* A DatabaseManager method in progress.                                   *)
(***************************************************************************)
NoCall ==
  [op |-> "none", stage |-> "-", p |-> "-", c |-> <<>>, m |-> 0,
   files |-> <<>>, k |-> 0, ok |-> TRUE, val |-> 0]

Ret(ok, val) == [NoCall EXCEPT !.op = "ret", !.ok = ok, !.val = val]

Invoke(op, stage) == [NoCall EXCEPT !.op = op, !.stage = stage]

insert_files_batch(files) == [Invoke("insert_files_batch", "begin") EXCEPT !.files = files, !.k = 1]
insert_file(p, c, m)      == [Invoke("insert_file", "begin") EXCEPT !.p = p, !.c = c, !.m = m]
update_file(p, c, m)      == [Invoke("update_file", "begin") EXCEPT !.p = p, !.c = c, !.m = m]
delete_file(p)            == [Invoke("delete_file", "del") EXCEPT !.p = p]
mark_as_deleted(p)        == [Invoke("mark_as_deleted", "begin") EXCEPT !.p = p]
unmark_as_deleted(p)      == [Invoke("unmark_as_deleted", "begin") EXCEPT !.p = p]
cleanup_deleted_files(d)  == [Invoke("cleanup_deleted_files", "sel") EXCEPT !.m = d]
clear_index               == Invoke("clear_index", "del")
add_search_history        == Invoke("add_search_history", "ins")
optimize                  == Invoke("optimize", "ins")

NoCand == [name |-> "", crawl |-> "none", watch |-> "none"]

\* no extraction under way, no temporary directory
NoExtraction ==
  [n |-> 0, dirs |-> {}, orphans |-> {},
   th |-> [t \in {"w1", "retry"} |->
             [pc |-> "idle", p |-> "", dir |-> 0, out |-> "none"]]]

\* the except-branch of each method, entered when a statement raises
\* sqlite3.Error
OnError(c) ==
  CASE c.op \in {"insert_files_batch", "insert_file", "update_file",
                 "mark_as_deleted", "unmark_as_deleted"}
         -> [c EXCEPT !.stage = "rollback", !.ok = FALSE]       \* rollback, raise
    [] c.op = "cleanup_deleted_files"
         -> [c EXCEPT !.stage = "rollback", !.ok = TRUE, !.val = 0]   \* rollback, return 0
    [] c.op \in {"delete_file", "clear_index"}
         -> Ret(FALSE, 0)                                       \* log, raise
    [] OTHER
         -> Ret(TRUE, 0)                                        \* log only

Returned(t) == call[t].op = "ret"

\* conn.execute("BEGIN TRANSACTION"): fails inside an open transaction
DbBegin(t) ==
  /\ call[t].stage = "begin"
  /\ IF inTxn
     THEN /\ call' = [call EXCEPT ![t] = OnError(call[t])]
          /\ UNCHANGED dbvars
     ELSE /\ TxBegin
          /\ call' = [call EXCEPT ![t].stage =
                        CASE call[t].op = "insert_files_batch" -> "rows"
                          [] call[t].op = "insert_file" -> "ins"
                          [] call[t].op = "cleanup_deleted_files" -> "del"
                          [] OTHER -> "upd"]
  /\ UNCHANGED <<hist, nFault>>

\* insert_files_batch: executemany, one row per step
DbInsertRow(t) ==
  LET c == call[t]
      f == c.files[c.k]
  IN  /\ c.op = "insert_files_batch" /\ c.stage = "rows"
      /\ Len(rows) < MaxRows
      /\ TxDML(Append(rows, NewRowTagged(f[1], f[2], f[3], t)), c.k = 1)
      /\ call' = [call EXCEPT ![t] =
                    IF c.k = Len(c.files) THEN [c EXCEPT !.stage = "commit"]
                    ELSE [c EXCEPT !.k = c.k + 1]]
      /\ UNCHANGED <<hist, nFault>>

\* bookkeeping for the batch properties: the statement changed or removed a
\* row that an unfinished insert_files_batch call wrote
Touches(new) ==
  SelectSeq(rows, LAMBDA r : r.tag # "") # SelectSeq(new, LAMBDA r : r.tag # "")

Touched(new) == hist' = [hist EXCEPT !.touched = @ \/ Touches(new)]

\* the single INSERT of insert_file, and of update_file when rowcount = 0
DbInsert(t) ==
  LET c == call[t]
  IN  /\ c.op \in {"insert_file", "update_file"} /\ c.stage = "ins"
      /\ Len(rows) < MaxRows
      /\ TxDML(SqlInsert(rows, c.p, c.c, c.m), TRUE)
      /\ call' = [call EXCEPT ![t].stage = "commit"]
      /\ UNCHANGED <<hist, nFault>>

\* update_file: the UPDATE
DbUpdate(t) ==
  LET c == call[t]
  IN  /\ c.op = "update_file" /\ c.stage = "upd"
      /\ TxDML(SqlUpdate(rows, c.p, c.c, c.m), TRUE)
      /\ call' = [call EXCEPT ![t].stage =
                    IF RowCount(rows, c.p) = 0 THEN "ins" ELSE "commit"]
      /\ Touched(SqlUpdate(rows, c.p, c.c, c.m))
      /\ UNCHANGED nFault

MarkStatement(c) ==
  IF c.op = "mark_as_deleted" THEN SqlMark(rows, c.p, now) ELSE SqlUnmark(rows, c.p)

\* mark_as_deleted / unmark_as_deleted: the UPDATE; commit when a row was
\* hit, rollback (and a normal return) when none was
DbMark(t) ==
  LET c == call[t]
  IN  /\ c.op \in {"mark_as_deleted", "unmark_as_deleted"} /\ c.stage = "upd"
      /\ TxDML(MarkStatement(c), TRUE)
      /\ call' = [call EXCEPT ![t].stage =
                    IF RowCount(rows, c.p) > 0 THEN "commit" ELSE "rollback"]
      /\ Touched(MarkStatement(c))
      /\ UNCHANGED nFault

\* delete_file / clear_index: the DELETE
DbDelete(t) ==
  LET c == call[t]
  IN  /\ c.op \in {"delete_file", "clear_index"} /\ c.stage = "del"
      /\ TxDML(IF c.op = "clear_index" THEN <<>> ELSE SqlDelete(rows, c.p), TRUE)
      /\ call' = [call EXCEPT ![t].stage = "commit"]
      /\ Touched(IF c.op = "clear_index" THEN <<>> ELSE SqlDelete(rows, c.p))
      /\ UNCHANGED nFault

\* cleanup_deleted_files: the SELECT of old tombstones; returns 0 when there
\* are none
DbSelectOld(t) ==
  LET c   == call[t]
      old == OldDeleted(rows, now - c.m)
  IN  /\ c.op = "cleanup_deleted_files" /\ c.stage = "sel"
      /\ call' = [call EXCEPT ![t] =
                    IF old = <<>> THEN Ret(TRUE, 0)
                    ELSE [c EXCEPT !.stage = "begin", !.files = old, !.k = 1,
                                   !.val = Len(old)]]
      /\ UNCHANGED <<dbvars, hist, nFault>>

\* cleanup_deleted_files: one DELETE ... AND deleted = '1' per selected row
DbDeleteOld(t) ==
  LET c == call[t]
  IN  /\ c.op = "cleanup_deleted_files" /\ c.stage = "del"
      /\ TxDML(SqlDeleteMarked(rows, c.files[c.k]), TRUE)
      /\ call' = [call EXCEPT ![t] =
                    IF c.k = Len(c.files) THEN [c EXCEPT !.stage = "commit"]
                    ELSE [c EXCEPT !.k = c.k + 1]]
      /\ Touched(SqlDeleteMarked(rows, c.files[c.k]))
      /\ UNCHANGED nFault

\* add_search_history's INSERT into search_history and optimize's
\* INSERT INTO files_fts(files_fts): no row of files_fts changes, but the
\* statement is DML and the method commits
DbOtherInsert(t) ==
  /\ call[t].op \in {"add_search_history", "optimize"} /\ call[t].stage = "ins"
  /\ TxDML(rows, TRUE)
  /\ call' = [call EXCEPT ![t].stage = "commit"]
  /\ UNCHANGED <<hist, nFault>>

\* what the finished insert_files_batch of thread t left committed
BatchOutcome(c, t, committed) ==
  [n |-> Len(c.files), persisted |-> TaggedCount(committed, t), ok |-> c.ok]

\* bookkeeping for the counter properties: how many entries the finished
\* write of an indexing worker left committed
CommittedBy(t, c, finalDisk) ==
  CASE c.op = "insert_files_batch" -> TaggedCount(finalDisk, t)
    [] c.op = "update_file" /\ c.stage = "commit" -> 1
    [] OTHER -> 0

Credit(t, c, finalDisk) ==
  [w \in DOMAIN hist.saved |->
     IF w = t THEN hist.saved[w] + CommittedBy(t, c, finalDisk) ELSE hist.saved[w]]

FinishCall(t, c, finalRows, finalDisk) ==
  /\ call' = [call EXCEPT ![t] = Ret(c.ok, c.val)]
  /\ IF c.op = "insert_files_batch"
     THEN /\ hist' = [hist EXCEPT !.batch = BatchOutcome(c, t, finalDisk),
                                  !.saved = Credit(t, c, finalDisk)]
          /\ rows' = Untag(finalRows, t)
          /\ disk' = Untag(finalDisk, t)
     ELSE /\ hist' = [hist EXCEPT !.saved = Credit(t, c, finalDisk)]
          /\ rows' = finalRows
          /\ disk' = finalDisk

\* conn.commit() and the normal return: whatever the connection holds
\* becomes durable, whoever wrote it
DbCommit(t) ==
  /\ call[t].stage = "commit"
  /\ inTxn' = FALSE
  /\ FinishCall(t, call[t], rows, rows)
  /\ UNCHANGED nFault

\* conn.rollback() in the except-branch (or after rowcount = 0), then the
\* raise or return: whatever is uncommitted is dropped, whoever wrote it
DbRollback(t) ==
  /\ call[t].stage = "rollback"
  /\ inTxn' = FALSE
  /\ FinishCall(t, call[t], disk, disk)
  /\ UNCHANGED nFault

\* a write statement raises sqlite3.Error (disk I/O error, database full)
DbFault(t) ==
  /\ call[t].stage \in {"rows", "ins", "upd", "del"}
  /\ nFault > 0
  /\ nFault' = nFault - 1
  /\ IF OnError(call[t]).op = "ret"
     THEN FinishCall(t, OnError(call[t]), rows, disk) /\ UNCHANGED inTxn
     ELSE call' = [call EXCEPT ![t] = OnError(call[t])] /\ UNCHANGED <<dbvars, hist>>

\* after close() self.conn is None: the next statement of a method raises
\* AttributeError, which no "except sqlite3.Error" catches (no rollback)
DbClosed(t) ==
  /\ call[t].op \notin {"none", "ret"}
  /\ call' = [call EXCEPT ![t] = Ret(FALSE, 0)]
  /\ UNCHANGED <<dbvars, hist, nFault>>

DbStep(t) ==
  IF conn = "open"
  THEN \/ DbBegin(t) \/ DbInsertRow(t) \/ DbInsert(t) \/ DbUpdate(t) \/ DbMark(t)
       \/ DbDelete(t) \/ DbSelectOld(t) \/ DbDeleteOld(t) \/ DbOtherInsert(t)
       \/ DbCommit(t) \/ DbRollback(t) \/ DbFault(t)
  ELSE DbClosed(t)


(***************************************************************************)
(* The file tree and text extraction.                                      *)
(***************************************************************************)
NoFile == [exists |-> FALSE, mtime |-> 0, size |-> 0, kind |-> "ok", text |-> <<>>]

FileShapes ==
  { [kind |-> "ok",     text |-> <<"x">>,      size |-> MAX_FILE_SIZE],
    [kind |-> "ok",     text |-> <<"x", "y">>, size |-> MAX_FILE_SIZE],
    [kind |-> "empty",  text |-> <<>>,         size |-> MAX_FILE_SIZE],
    [kind |-> "locked", text |-> <<"x">>,      size |-> MAX_FILE_SIZE],
    [kind |-> "slow",   text |-> <<"x">>,      size |-> MAX_FILE_SIZE],
    [kind |-> "ok",     text |-> <<"x">>,      size |-> MAX_FILE_SIZE + 1] }

File(shape, m) ==
  [exists |-> TRUE, mtime |-> m, size |-> shape.size, kind |-> shape.kind,
   text |-> shape.text]

\* _extract_text_safe: the text, or None/'' (both falsy, <<>> here) when the
\* file is gone or held open (the safe copy fails), times out, or is empty
ExtractText(f) == IF f.exists /\ f.kind = "ok" THEN f.text ELSE <<>>

\* _extract_text_safe reaches _add_to_retry_queue only from its TimeoutError
\* branch: _extract_text swallows every other exception and returns None
ExtractQueues(f) == f.exists /\ f.kind = "slow"

\* _add_to_retry_queue / the retryable branch of _log_skip
AddSkipped(sf, p) ==
  IF \E i \in DOMAIN sf : sf[i].path = p THEN sf
  ELSE Append(sf, [path |-> p, retry_count |-> 0])

RemoveSkipped(sf, p) == SelectSeq(sf, LAMBDA e : e.path # p)

BumpSkipped(sf, p) ==
  [i \in DOMAIN sf |->
     IF sf[i].path = p THEN [sf[i] EXCEPT !.retry_count = @ + 1] ELSE sf[i]]

\* _collect_files: os.walk over the root, files that exist (the probe files
\* of the model all pass _should_include_file)
_collect_files(root) == SelectSeq(WalkOrder(root), LAMBDA p : fs[p].exists)

(***************************************************************************)
(* indexer.py: start_indexing and the indexing worker thread.              *)
(***************************************************************************)
StatsZero ==
  [total_files |-> 0, indexed_files |-> 0, skipped_files |-> 0,
   error_files |-> 0, new_files |-> 0, modified_files |-> 0,
   deleted_files |-> 0, paused_count |-> 0]

Dead ==
  [pc |-> "dead", roots |-> <<>>, ri |-> 0, all_files |-> <<>>, i |-> 0,
   batch |-> <<>>, is_new |-> FALSE, current_mtime |-> 0, del |-> <<>>,
   cut |-> FALSE]     \* cut is bookkeeping: the pass saw stop_flag set

Alive(w) == wk[w].pc # "dead"

FreeWorker == IF ~Alive("w1") THEN "w1" ELSE "w2"

RetryAlive == rt.pc # "dead"

\* start_indexing: the test that lets a start through
StartGuard == ~is_running

\* start_indexing (POST /api/indexing/start, which also registers the roots
\* with the watcher when the start was accepted)
StartIndexing(roots) ==
  /\ nStart > 0
  /\ nStart' = nStart - 1
  /\ IF StartGuard
     THEN /\ ~Alive(FreeWorker)
          /\ stop_flag' = FALSE
          /\ current_thread' = FreeWorker
          /\ wk' = [wk EXCEPT ![FreeWorker] = [Dead EXCEPT !.pc = "start", !.roots = roots]]
          /\ wt' = [wt EXCEPT !.watched = @ \cup Range(roots)]
          /\ hist' = [hist EXCEPT !.start = "started"]
     ELSE /\ hist' = [hist EXCEPT !.start = "already_running"]
          /\ UNCHANGED <<stop_flag, current_thread, wk, wt>>
  /\ UNCHANGED <<dbvars, call, fs, now, conn, cand, ex, auto, mon, is_running, retry_stop_flag, stats,
                 skipped_files, rt, api, nFault, nFs, nApi, nCycle, nCall>>

\* UserActivityMonitor.start: without pynput nothing is started; else the
\* listeners are started and last_activity_time = time.time()
MonitorStart(m) ==
  IF ~m.pynput \/ m.monitoring THEN m
  ELSE [m EXCEPT !.monitoring = TRUE, !.active = TRUE]

\* UserActivityMonitor.stop: the listeners are stopped
MonitorStop(m) == [m EXCEPT !.monitoring = FALSE]

\* what a worker step leaves alone unless it says otherwise
WorkerFrame ==
  UNCHANGED <<dbvars, fs, now, conn, cand, ex, auto, mon, stop_flag, current_thread, wt, api, hist,
              nFault, nFs, nStart, nApi, nCycle, nCall>>

\* the fault leaves the loop instead of the iteration
LeaveLoop(w) == [wk[w] EXCEPT !.pc = "final", !.i = @ + 1]

\* "continue", or the end of the loop body (also after a caught exception)
NextFile(w) == [wk[w] EXCEPT !.pc = "top", !.i = @ + 1]

\* _indexing_worker, first lines: only now is_running set
WBegin(w) ==
  /\ wk[w].pc = "start"
  /\ is_running' = TRUE
  /\ stats' = StatsZero
  /\ mon' = IF mon.enabled THEN MonitorStart(mon) ELSE mon
  /\ wk' = [wk EXCEPT ![w].pc = "collect", ![w].ri = 1]
  /\ hist' = [hist EXCEPT !.saved[w] = 0]
  /\ UNCHANGED <<dbvars, fs, now, conn, cand, ex, auto, stop_flag, current_thread, wt, api,
                 nFault, nFs, nStart, nApi, nCycle, nCall>>
  /\ UNCHANGED <<call, retry_stop_flag, skipped_files, rt>>

\* phase 1: one root per step; a set stop_flag breaks the loop
WCollect(w) ==
  /\ wk[w].pc = "collect"
  /\ IF wk[w].ri > Len(wk[w].roots) \/ stop_flag
     THEN /\ stats' = [stats EXCEPT !.total_files = Len(wk[w].all_files)]
          /\ wk' = [wk EXCEPT ![w].pc = "top", ![w].i = 1,
                              ![w].cut = (wk[w].ri <= Len(wk[w].roots))]
     ELSE /\ wk' = [wk EXCEPT ![w].all_files = @ \o _collect_files(wk[w].roots[wk[w].ri]),
                              ![w].ri = @ + 1]
          /\ stats' = stats
  /\ WorkerFrame
  /\ UNCHANGED <<call, is_running, retry_stop_flag, skipped_files, rt>>

\* a comparison that still takes a difference of exactly one second as
\* unchanged
UnchangedUpToSecond(current, indexed) == Abs(current - indexed) <= TicksPerSec

\* abs(current_mtime - indexed_mtime) < 1.0
Unchanged(current, indexed) == Abs(current - indexed) < TicksPerSec

\* the activity gate is consulted: a monitor exists, is enabled and reports
\* input within the idle threshold
GateOpenAlways == FALSE

GateActive == mon.enabled /\ mon.active

\* a size test that already fires at the cap
SizeExceededAtCap(f) == f.size >= MAX_FILE_SIZE

\* if file_size > MAX_FILE_SIZE (indexing worker and retry worker)
SizeExceeded(f) == f.size > MAX_FILE_SIZE

\* _process_files_incremental, the loop body from the size check on: size
\* check, stat, get_file_mtime and the new/modified/unchanged decision
WStat(w) ==
  LET l == wk[w]
      p == l.all_files[l.i]
      f == fs[p]
      indexed_mtime == get_file_mtime(rows, p)
  IN  IF f.exists /\ SizeExceeded(f)
      THEN /\ stats' = [stats EXCEPT !.skipped_files = @ + 1]
           /\ wk' = [wk EXCEPT ![w] = NextFile(w)]
      ELSE IF ~f.exists \/ conn # "open"   \* os.path.getmtime, or get_file_mtime
                                           \* on a closed store, raises
      THEN /\ stats' = [stats EXCEPT !.error_files = @ + 1]
           /\ wk' = [wk EXCEPT ![w] = NextFile(w)]
      ELSE IF indexed_mtime # Null /\ Unchanged(f.mtime, indexed_mtime)
      THEN /\ stats' = [stats EXCEPT !.skipped_files = @ + 1]
           /\ wk' = [wk EXCEPT ![w] = NextFile(w)]
      ELSE IF indexed_mtime # Null
      THEN /\ stats' = [stats EXCEPT !.modified_files = @ + 1]
           /\ wk' = [wk EXCEPT ![w].pc = "extract", ![w].is_new = FALSE,
                               ![w].current_mtime = f.mtime]
      ELSE /\ stats' = [stats EXCEPT !.new_files = @ + 1]
           /\ wk' = [wk EXCEPT ![w].pc = "extract", ![w].is_new = TRUE,
                               ![w].current_mtime = f.mtime]

\* _process_files_incremental, head of the loop body: stop check, then the
\* activity gate (paused_count + 1 and wait_until_idle when the user is
\* active), then the file
WTop(w) ==
  LET l == wk[w]
  IN  /\ l.pc = "top"
      /\ IF l.i > Len(l.all_files) \/ stop_flag
         THEN /\ wk' = [wk EXCEPT ![w].pc = "final",
                                  ![w].cut = @ \/ l.i <= Len(l.all_files)]
              /\ stats' = stats
         ELSE IF GateActive
         THEN /\ stats' = [stats EXCEPT !.paused_count = @ + 1]
              /\ wk' = [wk EXCEPT ![w].pc = "paused"]
         ELSE WStat(w)
      /\ WorkerFrame
      /\ UNCHANGED <<call, is_running, retry_stop_flag, skipped_files, rt>>

\* wait_until_idle: returns True once the monitor reports idle (the file is
\* then processed), False when the monitor reports active and stop_flag is
\* set (break); sleeps otherwise
WResume(w) ==
  /\ wk[w].pc = "paused"
  /\ IF ~mon.active
     THEN WStat(w)
     ELSE /\ stop_flag
          /\ wk' = [wk EXCEPT ![w].pc = "final", ![w].cut = TRUE]
          /\ stats' = stats
  /\ WorkerFrame
  /\ UNCHANGED <<call, is_running, retry_stop_flag, skipped_files, rt>>

\* second stop check, extraction, then batch.append (new) or update_file
\* (modified)
WExtract(w) ==
  LET l == wk[w]
      p == l.all_files[l.i]
      content == ExtractText(fs[p])
      batch2 == Append(l.batch, <<p, content, l.current_mtime>>)
  IN  /\ l.pc = "extract"
      /\ IF stop_flag
         THEN /\ wk' = [wk EXCEPT ![w].pc = "final", ![w].cut = TRUE]
              /\ UNCHANGED <<stats, skipped_files, call>>
         ELSE /\ skipped_files' = IF ExtractQueues(fs[p]) THEN AddSkipped(skipped_files, p)
                                  ELSE skipped_files
              /\ IF content = <<>>
                 THEN /\ stats' = [stats EXCEPT !.skipped_files = @ + 1]
                      /\ wk' = [wk EXCEPT ![w] = NextFile(w)]
                      /\ call' = call
                 ELSE IF l.is_new
                 THEN /\ stats' = [stats EXCEPT !.indexed_files = @ + 1]
                      /\ wk' = [wk EXCEPT ![w] =
                                  IF Len(batch2) >= BATCH_SIZE
                                  THEN [l EXCEPT !.batch = batch2, !.pc = "batchfull"]
                                  ELSE [NextFile(w) EXCEPT !.batch = batch2]]
                      /\ call' = call
                 ELSE /\ call' = [call EXCEPT ![w] = update_file(p, content, l.current_mtime)]
                      /\ wk' = [wk EXCEPT ![w].pc = "upd"]
                      /\ stats' = stats
      /\ WorkerFrame
      /\ UNCHANGED <<is_running, retry_stop_flag, rt>>

\* update_file returned or raised
WUpdated(w) ==
  /\ wk[w].pc = "upd" /\ Returned(w)
  /\ call' = [call EXCEPT ![w] = NoCall]
  /\ stats' = IF call[w].ok THEN [stats EXCEPT !.indexed_files = @ + 1]
              ELSE [stats EXCEPT !.error_files = @ + 1]
  /\ wk' = [wk EXCEPT ![w] = NextFile(w)]
  /\ WorkerFrame
  /\ UNCHANGED <<is_running, retry_stop_flag, skipped_files, rt>>

\* the batch is full: third stop check, then insert_files_batch
WBatchFull(w) ==
  /\ wk[w].pc = "batchfull"
  /\ IF stop_flag
     THEN wk' = [wk EXCEPT ![w].pc = "final", ![w].cut = TRUE] /\ call' = call
     ELSE /\ call' = [call EXCEPT ![w] = insert_files_batch(wk[w].batch)]
          /\ wk' = [wk EXCEPT ![w].pc = "batchwait"]
  /\ WorkerFrame
  /\ UNCHANGED <<is_running, retry_stop_flag, stats, skipped_files, rt>>

\* insert_files_batch returned or raised: batch = [] either way
WBatchSaved(w) ==
  /\ wk[w].pc = "batchwait" /\ Returned(w)
  /\ call' = [call EXCEPT ![w] = NoCall]
  /\ wk' = [wk EXCEPT ![w] = [NextFile(w) EXCEPT !.batch = <<>>]]
  /\ WorkerFrame
  /\ UNCHANGED <<is_running, retry_stop_flag, stats, skipped_files, rt>>

\* after the loop: the remaining batch is written
WFinal(w) ==
  /\ wk[w].pc = "final"
  /\ IF wk[w].batch # <<>>
     THEN /\ call' = [call EXCEPT ![w] = insert_files_batch(wk[w].batch)]
          /\ wk' = [wk EXCEPT ![w].pc = "finalwait"]
     ELSE wk' = [wk EXCEPT ![w].pc = "reconcile"] /\ call' = call
  /\ WorkerFrame
  /\ UNCHANGED <<is_running, retry_stop_flag, stats, skipped_files, rt>>

WFinalSaved(w) ==
  /\ wk[w].pc = "finalwait" /\ Returned(w)
  /\ call' = [call EXCEPT ![w] = NoCall]
  /\ wk' = [wk EXCEPT ![w].pc = "reconcile", ![w].batch = <<>>]
  /\ WorkerFrame
  /\ UNCHANGED <<is_running, retry_stop_flag, stats, skipped_files, rt>>

\* _cleanup_deleted_files(current_files): the live paths not collected
DeletedFiles(indexed_files, current_files) ==
  SelectSeq(indexed_files, LAMBDA f : f \notin Range(current_files))

\* phase 3 (the second _cleanup_deleted_files of the class): delete_file
\* for every live path that was not collected
WReconcile(w) ==
  LET del == IF conn = "open"
             THEN DeletedFiles(get_all_indexed_paths(rows), wk[w].all_files)
             ELSE <<>>      \* the read raises; the phase's except logs it
  IN  /\ wk[w].pc = "reconcile"
      /\ IF del = <<>>
         THEN wk' = [wk EXCEPT ![w].pc = "maint"] /\ call' = call
         ELSE /\ wk' = [wk EXCEPT ![w].pc = "recdel", ![w].del = del]
              /\ call' = [call EXCEPT ![w] = delete_file(del[1])]
      /\ WorkerFrame
      /\ UNCHANGED <<is_running, retry_stop_flag, stats, skipped_files, rt>>

\* delete_file returned (count it, go on) or raised (the except of
\* _cleanup_deleted_files ends the phase)
WReconciled(w) ==
  LET rest == Tail(wk[w].del)
  IN  /\ wk[w].pc = "recdel" /\ Returned(w)
      /\ IF ~call[w].ok
         THEN /\ wk' = [wk EXCEPT ![w].pc = "maint", ![w].del = <<>>]
              /\ call' = [call EXCEPT ![w] = NoCall]
              /\ stats' = stats
         ELSE /\ stats' = [stats EXCEPT !.deleted_files = @ + 1]
              /\ IF rest = <<>>
                 THEN /\ wk' = [wk EXCEPT ![w].pc = "maint", ![w].del = <<>>]
                      /\ call' = [call EXCEPT ![w] = NoCall]
                 ELSE /\ wk' = [wk EXCEPT ![w].del = rest]
                      /\ call' = [call EXCEPT ![w] = delete_file(rest[1])]
      /\ WorkerFrame
      /\ UNCHANGED <<is_running, retry_stop_flag, skipped_files, rt>>

\* phase 4: vacuum() (VACUUM either runs or raises inside an open
\* transaction and is logged; no row changes), then optimize()
WMaintain(w) ==
  /\ wk[w].pc = "maint"
  /\ call' = [call EXCEPT ![w] = optimize]
  /\ wk' = [wk EXCEPT ![w].pc = "optwait"]
  /\ WorkerFrame
  /\ UNCHANGED <<is_running, retry_stop_flag, stats, skipped_files, rt>>

\* history: the pass that ended last
NoPass ==
  [done |-> FALSE, cancelled |-> FALSE, roots |-> <<>>, synced |-> FALSE,
   again |-> FALSE, budget |-> <<0, 0, 0, 0, 0>>, starts |-> 0]

\* nothing but worker w is at work
Quiet(w) ==
  /\ \A v \in Workers \ {w} : ~Alive(v)
  /\ \A t \in Threads \ {w} : call[t] = NoCall
  /\ wt.queue = <<>> /\ wt.pc = "idle"
  /\ api.pc = "idle"
  /\ rt.pc \in {"dead", "sleep"}

\* the committed table is what an unchanged-skip pass would leave: every
\* collected file within the size limit has a live row whose mtime is within
\* the tolerance, and every live row is of a collected file
Synced(all_files) ==
  /\ \A p \in Range(all_files) :
        fs[p].exists /\ fs[p].size <= MAX_FILE_SIZE =>
          \E i \in DOMAIN disk :
             /\ disk[i].path = p /\ disk[i].deleted = "0"
             /\ \A j \in DOMAIN disk :
                   disk[j].path = p /\ disk[j].deleted = "0" =>
                     Abs(fs[p].mtime - MtimeFloat(disk[j].mtime)) < TicksPerSec
  /\ \A i \in DOMAIN disk : disk[i].deleted = "0" => disk[i].path \in Range(all_files)

\* worker w ends a pass right after an earlier complete pass over the same
\* roots, and nothing else happened since that pass ended: no change of the
\* tree, no request, no fault, no retry cycle, no second worker
BackToBack(w) ==
  /\ hist.pass.done /\ ~hist.pass.cancelled /\ ~wk[w].cut
  /\ hist.pass.roots = wk[w].roots
  /\ hist.pass.budget = <<nFault, nFs, nApi, nCycle, nCall>>
  /\ hist.pass.starts = nStart + 1
  /\ Quiet(w)

\* the finally block: is_running = False, start_retry_worker when something
\* is queued, and the thread ends
WFinish(w) ==
  /\ wk[w].pc = "optwait" /\ Returned(w)
  /\ call' = [call EXCEPT ![w] = NoCall]
  /\ is_running' = FALSE
  /\ wk' = [wk EXCEPT ![w] = Dead]
  /\ IF skipped_files # <<>> /\ ~RetryAlive
     THEN /\ retry_stop_flag' = FALSE
          /\ rt' = [rt EXCEPT !.pc = "sleep"]
     ELSE UNCHANGED <<retry_stop_flag, rt>>
  /\ hist' = [hist EXCEPT !.pass =
                [done |-> TRUE, cancelled |-> wk[w].cut, roots |-> wk[w].roots,
                 synced |-> Quiet(w) /\ rows = disk /\ Synced(wk[w].all_files),
                 again |-> BackToBack(w) /\ hist.pass.synced,
                 budget |-> <<nFault, nFs, nApi, nCycle, nCall>>,
                 starts |-> nStart]]
  /\ mon' = MonitorStop(mon)
  /\ UNCHANGED <<dbvars, fs, now, conn, cand, ex, auto, stop_flag, current_thread, wt, api,
                 nFault, nFs, nStart, nApi, nCycle, nCall>>
  /\ UNCHANGED <<stats, skipped_files>>

WorkerStep(w) ==
  \/ WBegin(w) \/ WCollect(w) \/ WTop(w) \/ WExtract(w) \/ WUpdated(w)
  \/ WBatchFull(w) \/ WBatchSaved(w) \/ WFinal(w) \/ WFinalSaved(w)
  \/ WReconcile(w) \/ WReconciled(w) \/ WMaintain(w) \/ WFinish(w)


(***************************************************************************)
(* indexer.py: the retry worker thread.                                    *)
(***************************************************************************)
RetryDead == [pc |-> "dead", files |-> <<>>, k |-> 0]

RetryFrame ==
  UNCHANGED <<dbvars, fs, now, conn, cand, ex, auto, mon, is_running, stop_flag, current_thread,
              retry_stop_flag, stats, wk, wt, api, hist, nFault, nFs, nStart,
              nApi, nCall>>

\* the interval has passed: leave when stopped or when nothing is queued,
\* else snapshot the keys of skipped_files
RWake ==
  /\ rt.pc = "sleep"
  /\ nCycle > 0
  /\ nCycle' = nCycle - 1
  /\ rt' = IF retry_stop_flag \/ skipped_files = <<>> THEN RetryDead
           ELSE [pc |-> "item", k |-> 1,
                 files |-> [i \in DOMAIN skipped_files |-> skipped_files[i].path]]
  /\ RetryFrame
  /\ UNCHANGED <<call, skipped_files>>

\* one file of the snapshot, after the gate: gone or oversized -> forget it;
\* extracted -> update_file when a live row exists, insert_file otherwise;
\* still failing -> retry_count + 1
RWork ==
  LET p == rt.files[rt.k]
      f == fs[p]
      content == ExtractText(f)
      queued == IF ExtractQueues(f) THEN AddSkipped(skipped_files, p) ELSE skipped_files
      next == [rt EXCEPT !.pc = "item", !.k = @ + 1]
  IN  IF ~f.exists \/ SizeExceeded(f)
      THEN /\ skipped_files' = RemoveSkipped(skipped_files, p)
           /\ rt' = next
           /\ call' = call
      ELSE IF content = <<>>
      THEN /\ skipped_files' = BumpSkipped(queued, p)
           /\ rt' = next
           /\ call' = call
      ELSE /\ call' = [call EXCEPT !["retry"] =
                         IF get_file_mtime(rows, p) # Null
                         THEN update_file(p, content, f.mtime)
                         ELSE insert_file(p, content, f.mtime)]
           /\ rt' = [rt EXCEPT !.pc = "wait"]
           /\ skipped_files' = skipped_files

\* head of the loop over the snapshot: end of the list, stop check, the
\* activity gate, then the file
RItem ==
  /\ rt.pc = "item"
  /\ IF rt.k > Len(rt.files)
     THEN rt' = [rt EXCEPT !.pc = "sleep", !.files = <<>>, !.k = 0]
          /\ UNCHANGED <<call, skipped_files>>
     ELSE IF retry_stop_flag
     THEN rt' = RetryDead /\ UNCHANGED <<call, skipped_files>>
     ELSE IF GateActive
     THEN rt' = [rt EXCEPT !.pc = "paused"] /\ UNCHANGED <<call, skipped_files>>
     ELSE RWork
  /\ RetryFrame
  /\ UNCHANGED <<nCycle, nCall>>

\* wait_until_idle(stop_flag = retry_stop_flag) in the retry worker
RResume ==
  /\ rt.pc = "paused"
  /\ IF ~mon.active
     THEN RWork
     ELSE /\ retry_stop_flag
          /\ rt' = RetryDead
          /\ UNCHANGED <<call, skipped_files>>
  /\ RetryFrame
  /\ UNCHANGED <<nCycle, nCall>>

\* the store write returned (forget the file) or raised (keep it)
RSaved ==
  /\ rt.pc = "wait" /\ Returned("retry")
  /\ call' = [call EXCEPT !["retry"] = NoCall]
  /\ skipped_files' = IF call["retry"].ok
                      THEN RemoveSkipped(skipped_files, rt.files[rt.k])
                      ELSE skipped_files
  /\ rt' = [rt EXCEPT !.pc = "item", !.k = @ + 1]
  /\ RetryFrame
  /\ UNCHANGED <<nCycle, nCall>>

RetryStep == RWake \/ RItem \/ RSaved

(***************************************************************************)
(* The user changes the file tree; watchdog queues an event when the path  *)
(* lies below a watched root.                                              *)
(***************************************************************************)
Watched(p) == wt.alive /\ \E r \in wt.watched : p \in Under(r)

Emit(type, src, dst) ==
  IF Watched(src)
  THEN [wt EXCEPT !.queue = Append(@, [type |-> type, src |-> src, dst |-> dst])]
  ELSE wt

FsFrame ==
  UNCHANGED <<dbvars, call, now, conn, cand, ex, auto, mon, is_running, stop_flag, current_thread,
              retry_stop_flag, stats, skipped_files, wk, rt, api, hist,
              nFault, nStart, nApi, nCycle, nCall>>

FsCreate(p, shape, m) ==
  /\ nFs > 0 /\ ~fs[p].exists
  /\ fs' = [fs EXCEPT ![p] = File(shape, m)]
  /\ wt' = Emit("created", p, p)
  /\ nFs' = nFs - 1
  /\ FsFrame

FsModify(p, shape, m) ==
  /\ nFs > 0 /\ fs[p].exists /\ fs[p] # File(shape, m)
  /\ fs' = [fs EXCEPT ![p] = File(shape, m)]
  /\ wt' = Emit("modified", p, p)
  /\ nFs' = nFs - 1
  /\ FsFrame

FsDelete(p) ==
  /\ nFs > 0 /\ fs[p].exists
  /\ fs' = [fs EXCEPT ![p] = NoFile]
  /\ wt' = Emit("deleted", p, p)
  /\ nFs' = nFs - 1
  /\ FsFrame

FsMove(src, dst) ==
  /\ nFs > 0 /\ src # dst /\ fs[src].exists /\ ~fs[dst].exists
  /\ fs' = [fs EXCEPT ![dst] = fs[src], ![src] = NoFile]
  /\ wt' = Emit("moved", src, dst)
  /\ nFs' = nFs - 1
  /\ FsFrame

(***************************************************************************)
(* file_watcher.py: IndexedFileWatcher, run by the observer's one          *)
(* dispatch thread, an event at a time.                                    *)
(***************************************************************************)
WatchFrame ==
  UNCHANGED <<dbvars, fs, now, conn, cand, ex, auto, mon, is_running, stop_flag, current_thread,
              retry_stop_flag, stats, skipped_files, wk, rt, api, hist,
              nFault, nFs, nStart, nApi, nCycle, nCall>>

NoEvent == [type |-> "none", src |-> "-", dst |-> "-"]

\* on_created / on_modified: an event for a path in processing_files is
\* dropped; else _is_supported_file reads
\* indexer.SUPPORTED_IMAGE_EXTENSIONS, which FileIndexer does not define:
\* the AttributeError leaves the handler before processing_files is
\* touched and before anything is written.  The dispatch thread either
\* survives it or ends.
WatchCreatedModified ==
  /\ wt.pc = "idle" /\ wt.queue # <<>>
  /\ Head(wt.queue).type \in {"created", "modified"}
  /\ IF Head(wt.queue).src \in wt.processing
     THEN wt' = [wt EXCEPT !.queue = Tail(@)]
     ELSE \/ wt' = [wt EXCEPT !.queue = Tail(@)]
          \/ wt' = [wt EXCEPT !.queue = <<>>, !.alive = FALSE]
  /\ call' = call
  /\ WatchFrame

\* on_deleted: mark_as_deleted(src) when src is live; processing_files is
\* not consulted
WatchDeleted ==
  LET ev == Head(wt.queue)
  IN  /\ wt.pc = "idle" /\ wt.queue # <<>>
      /\ ev.type = "deleted"
      /\ IF is_file_indexed(rows, ev.src)
         THEN /\ call' = [call EXCEPT !["watch"] = mark_as_deleted(ev.src)]
              /\ wt' = [wt EXCEPT !.queue = Tail(@), !.pc = "busy", !.ev = ev]
         ELSE /\ call' = call
              /\ wt' = [wt EXCEPT !.queue = Tail(@)]
      /\ WatchFrame

\* on_moved, the tests: dropped when src or dest is in processing_files or
\* src is not live
WatchMoved ==
  LET ev == Head(wt.queue)
  IN  /\ wt.pc = "idle" /\ wt.queue # <<>>
      /\ ev.type = "moved"
      /\ IF ev.src \in wt.processing \/ ev.dst \in wt.processing
            \/ ~is_file_indexed(rows, ev.src)
         THEN wt' = [wt EXCEPT !.queue = Tail(@)]
         ELSE wt' = [wt EXCEPT !.queue = Tail(@), !.pc = "tested", !.ev = ev]
      /\ call' = call
      /\ WatchFrame

\* processing_files.discard(path) without effect
DiscardNothing(S, paths) == S

\* processing_files.discard, for each of the paths
Discard(S, paths) == S \ paths

\* on_moved, inside the try: both paths enter processing_files, then
\* mark_as_deleted(src)
WatchMovedAdd ==
  /\ wt.pc = "tested"
  /\ wt' = [wt EXCEPT !.processing = @ \cup {wt.ev.src, wt.ev.dst}, !.pc = "busy"]
  /\ call' = [call EXCEPT !["watch"] = mark_as_deleted(wt.ev.src)]
  /\ WatchFrame

\* mark_as_deleted returned or raised (logged).  on_moved goes on to
\* _is_supported_file(dest), whose AttributeError is caught by the
\* handler's except; its finally discards both paths.
WatchDone ==
  /\ wt.pc = "busy" /\ Returned("watch")
  /\ call' = [call EXCEPT !["watch"] = NoCall]
  /\ wt' = [wt EXCEPT !.pc = "idle", !.ev = NoEvent,
                      !.processing = IF wt.ev.type = "moved"
                                     THEN Discard(@, {wt.ev.src, wt.ev.dst})
                                     ELSE @]
  /\ WatchFrame

WatchStep ==
  \/ WatchCreatedModified \/ WatchDeleted \/ WatchMoved \/ WatchMovedAdd
  \/ WatchDone

(***************************************************************************)
(* server.py / search.py: a request thread.                                *)
(***************************************************************************)
GcDays == {0, 1}

ApiIdle == [pc |-> "idle", q |-> [quoted |-> FALSE, terms |-> <<>>], limit |-> 0,
            res |-> <<>>]

ApiFrame ==
  UNCHANGED <<dbvars, fs, now, conn, cand, ex, auto, mon, current_thread, stats, skipped_files, wk, rt,
              wt, nFault, nFs, nStart, nCycle, nCall>>

\* the rows a search would return if the unfinished batch of thread t were
\* entirely absent, and if it were entirely present
ViewWithout(t) == Untag(SelectSeq(rows, LAMBDA r : r.tag # t), t)

ViewWithAll(t) ==
  ViewWithout(t) \o
    [k \in DOMAIN call[t].files |->
       NewRow(call[t].files[k][1], call[t].files[k][2], call[t].files[k][3])]

ObservesPartialBatch(res, q, limit) ==
  \E t \in Threads :
     /\ call[t].op = "insert_files_batch"
     /\ Range(Untag(res, t)) # Range(search(ViewWithout(t), q, limit))
     /\ Range(Untag(res, t)) # Range(search(ViewWithAll(t), q, limit))

\* SearchEngine.search: add_search_history first
ApiSearch(q, limit) ==
  /\ api.pc = "idle" /\ nApi > 0
  /\ nApi' = nApi - 1
  /\ api' = [pc |-> "search", q |-> q, limit |-> limit, res |-> <<>>]
  /\ call' = [call EXCEPT !["api"] = add_search_history]
  /\ ApiFrame
  /\ UNCHANGED <<is_running, stop_flag, retry_stop_flag, hist>>

\* ... then DatabaseManager.search
ApiSearchSelect ==
  LET res == search(rows, api.q, api.limit)
  IN  /\ api.pc = "search" /\ Returned("api")
      /\ call' = [call EXCEPT !["api"] = NoCall]
      /\ api' = [api EXCEPT !.pc = "idle", !.res = res]
      /\ hist' = [hist EXCEPT !.partial = ObservesPartialBatch(res, api.q, api.limit)]
      /\ ApiFrame
      /\ UNCHANGED <<is_running, stop_flag, retry_stop_flag, nApi>>

\* POST /api/cleanup/deleted-files
ApiGc(days) ==
  /\ api.pc = "idle" /\ nApi > 0
  /\ nApi' = nApi - 1
  /\ api' = [ApiIdle EXCEPT !.pc = "db"]
  /\ call' = [call EXCEPT !["api"] = cleanup_deleted_files(days)]
  /\ ApiFrame
  /\ UNCHANGED <<is_running, stop_flag, retry_stop_flag, hist>>

\* POST /api/database/clear
ApiClear ==
  /\ api.pc = "idle" /\ nApi > 0
  /\ nApi' = nApi - 1
  /\ api' = [ApiIdle EXCEPT !.pc = "db"]
  /\ call' = [call EXCEPT !["api"] = clear_index]
  /\ ApiFrame
  /\ UNCHANGED <<is_running, stop_flag, retry_stop_flag, hist>>

ApiDbDone ==
  /\ api.pc = "db" /\ Returned("api")
  /\ call' = [call EXCEPT !["api"] = NoCall]
  /\ api' = ApiIdle
  /\ ApiFrame
  /\ UNCHANGED <<is_running, stop_flag, retry_stop_flag, hist, nApi>>

\* stop_indexing: nothing when is_running is false; else both stop flags,
\* then join(current_thread, 10 s)
ApiStop ==
  /\ api.pc = "idle" /\ nApi > 0
  /\ nApi' = nApi - 1
  /\ IF ~is_running
     THEN UNCHANGED <<stop_flag, retry_stop_flag>> /\ api' = ApiIdle
     ELSE /\ stop_flag' = TRUE
          /\ retry_stop_flag' = (retry_stop_flag \/ RetryAlive)
          /\ api' = [ApiIdle EXCEPT !.pc =
                       IF current_thread \in Workers /\ Alive(current_thread)
                       THEN "join" ELSE "idle"]
  /\ ApiFrame
  /\ UNCHANGED <<call, is_running, hist>>

\* the worker ended within the join
ApiStopJoined ==
  /\ api.pc = "join" /\ ~Alive(current_thread)
  /\ api' = ApiIdle
  /\ ApiFrame
  /\ UNCHANGED <<call, is_running, stop_flag, retry_stop_flag, hist, nApi>>

\* the join timed out with the worker still alive: second attempt, which
\* forces is_running = False
ApiStopForce ==
  /\ api.pc = "join" /\ Alive(current_thread)
  /\ stop_flag' = TRUE
  /\ is_running' = FALSE
  /\ api' = ApiIdle
  /\ ApiFrame
  /\ UNCHANGED <<call, retry_stop_flag, hist, nApi>>

ApiStep ==
  \/ \E q \in Queries, limit \in Limits : ApiSearch(q, limit)
  \/ ApiSearchSelect
  \/ \E d \in GcDays : ApiGc(d)
  \/ ApiClear \/ ApiDbDone \/ ApiStop \/ ApiStopJoined \/ ApiStopForce

\* time passes
Tick ==
  /\ now < MaxNow
  /\ now' = now + 1
  /\ UNCHANGED <<dbvars, call, fs, conn, cand, ex, auto, idxvars, wk, rt, wt, api, hist, cntvars>>

\* a statement of a store method, by whichever thread is inside one
StoreStep ==
  /\ \E t \in Threads : DbStep(t)
  /\ UNCHANGED <<fs, now, conn, cand, ex, auto, idxvars, wk, rt, wt, api, nFs, nStart, nApi, nCycle, nCall>>

(***************************************************************************)
(* indexer.py: UserActivityMonitor, driven by the user.                    *)
(***************************************************************************)
EnvFrame ==
  UNCHANGED <<dbvars, call, fs, now, conn, cand, ex, auto, is_running, stop_flag, current_thread,
              retry_stop_flag, stats, skipped_files, wk, rt, wt, api, hist,
              cntvars>>

\* _on_activity: a key or mouse event reaches a running listener
UserActs ==
  /\ mon.monitoring /\ ~mon.active
  /\ mon' = [mon EXCEPT !.active = TRUE]
  /\ EnvFrame

\* idle_threshold seconds have passed since last_activity_time
UserIdles ==
  /\ mon.active
  /\ mon' = [mon EXCEPT !.active = FALSE]
  /\ EnvFrame

\* the monitor as FileIndexer.__init__ builds it: last_activity_time is the
\* time of construction
MonitorsOn ==
  { [enabled |-> TRUE, pynput |-> py, monitoring |-> FALSE, active |-> ac] :
      py \in BOOLEAN, ac \in BOOLEAN }

(***************************************************************************)
(* indexer.py: the auto-indexing thread.                                   *)
(***************************************************************************)
AutoOff == [enabled |-> FALSE, stop |-> FALSE, pc |-> "dead", paths |-> <<>>,
            cycles |-> 0]      \* cycles is bookkeeping: wake-ups so far

\* self._cleanup_deleted_files() in _auto_indexing_worker passes no argument;
\* the name is bound to the last definition of the class, which requires
\* current_files: the call raises TypeError
CleanupCallRaises == TRUE

AutoFrame ==
  UNCHANGED <<dbvars, call, fs, now, conn, cand, ex, mon, is_running, retry_stop_flag,
              stats, skipped_files, rt, hist, cntvars>>

\* POST /api/auto-indexing/start -> start_auto_indexing(paths, interval)
ApiStartAuto(paths) ==
  /\ api.pc = "idle" /\ paths # <<>>
  /\ nApi > 0
  /\ IF auto.enabled
     THEN auto' = auto
     ELSE auto' = [auto EXCEPT !.enabled = TRUE, !.stop = FALSE, !.pc = "wait",
                               !.paths = paths]
  /\ UNCHANGED <<dbvars, call, fs, now, conn, cand, ex, mon, is_running, stop_flag,
                 current_thread, retry_stop_flag, stats, skipped_files, wk, rt,
                 wt, api, hist, nFault, nFs, nStart, nCycle, nCall>>
  /\ nApi' = nApi - 1

\* stop_auto_indexing: flag, switch, join (the thread polls the flag every
\* second of its waits)
stop_auto_indexing(a) ==
  IF ~a.enabled THEN a
  ELSE [a EXCEPT !.stop = TRUE, !.enabled = FALSE, !.pc = "dead"]

\* POST /api/auto-indexing/stop
ApiStopAuto ==
  /\ api.pc = "idle"
  /\ nApi > 0
  /\ nApi' = nApi - 1
  /\ auto' = stop_auto_indexing(auto)
  /\ UNCHANGED <<dbvars, call, fs, now, conn, cand, ex, mon, is_running, stop_flag,
                 current_thread, retry_stop_flag, stats, skipped_files, wk, rt,
                 wt, api, hist, nFault, nFs, nStart, nCycle, nCall>>

\* _auto_indexing_worker, one turn of the loop after a wait has elapsed:
\* with a pass running it waits another minute; else it calls
\* _cleanup_deleted_files() and, if that returns, start_indexing(paths,
\* silent_mode=True).  The except-branch logs and waits five minutes.
AutoWake ==
  /\ auto.pc = "wait" /\ ~auto.stop
  /\ auto.cycles < MaxCycles
  /\ auto' = [auto EXCEPT !.cycles = @ + 1]
  /\ IF is_running \/ CleanupCallRaises \/ Alive(FreeWorker)
     THEN UNCHANGED <<stop_flag, current_thread, wk>>
     ELSE /\ stop_flag' = FALSE
          /\ current_thread' = FreeWorker
          /\ wk' = [wk EXCEPT ![FreeWorker] =
                      [Dead EXCEPT !.pc = "start", !.roots = auto.paths]]
  /\ UNCHANGED <<wt, api>>
  /\ AutoFrame

(***************************************************************************)
(* server.py cleanup() (POST /api/shutdown, atexit), with                  *)
(* FileIndexer.cleanup and DatabaseManager.close.                          *)
(***************************************************************************)
CleanupFrame ==
  UNCHANGED <<call, fs, now, cand, ex, current_thread, stats, wk, rt, nFault, nFs,
              nStart, nCycle, nCall>>

\* FileSystemWatcher.stop: observer.stop() and join(), when it is alive
WatcherStop(o) ==
  IF o.alive THEN [o EXCEPT !.alive = FALSE, !.queue = <<>>] ELSE o

\* cleanup up to the first join: the watcher is stopped (the observer's
\* join waits for a handler in progress), auto-indexing and the monitor
\* are stopped, the three stop flags are set; step 2 joins the retry thread
\* when it is alive
CleanupBegin ==
  /\ api.pc = "idle" /\ wt.pc = "idle"
  /\ nApi > 0
  /\ nApi' = nApi - 1
  /\ wt' = WatcherStop(wt)
  /\ auto' = [stop_auto_indexing(auto) EXCEPT !.stop = TRUE]
  /\ mon' = MonitorStop(mon)
  /\ stop_flag' = TRUE
  /\ retry_stop_flag' = TRUE
  /\ api' = [ApiIdle EXCEPT !.pc = IF RetryAlive THEN "join_retry" ELSE "stop_main"]
  /\ CleanupFrame
  /\ UNCHANGED <<dbvars, conn, cand, ex, is_running, skipped_files, hist>>

\* step 2 is over: the retry thread ended, or join(3) and join(2) timed out
CleanupJoinRetry ==
  /\ api.pc = "join_retry"
  /\ api' = [api EXCEPT !.pc = "stop_main"]
  /\ CleanupFrame
  /\ UNCHANGED <<dbvars, conn, cand, ex, auto, mon, is_running, stop_flag, retry_stop_flag,
                 skipped_files, wt, hist, nApi>>

\* step 3: is_running = False when a pass is running or its thread is
\* alive, then the joins of current_thread when it is alive
CleanupStopMain ==
  /\ api.pc = "stop_main"
  /\ is_running' = FALSE
  /\ api' = [api EXCEPT !.pc =
               IF current_thread \in Workers /\ Alive(current_thread)
               THEN "join_main" ELSE "clear"]
  /\ CleanupFrame
  /\ UNCHANGED <<dbvars, conn, cand, ex, auto, mon, stop_flag, retry_stop_flag,
                 skipped_files, wt, hist, nApi>>

\* step 3 is over: the thread ended, or join(10) and join(5) timed out
CleanupJoinMain ==
  /\ api.pc = "join_main"
  /\ api' = [api EXCEPT !.pc = "clear"]
  /\ CleanupFrame
  /\ UNCHANGED <<dbvars, conn, cand, ex, auto, mon, is_running, stop_flag,
                 retry_stop_flag, skipped_files, wt, hist, nApi>>

\* step 4: skipped_files.clear()
CleanupClear ==
  /\ api.pc = "clear"
  /\ skipped_files' = <<>>
  /\ api' = [api EXCEPT !.pc = "close"]
  /\ CleanupFrame
  /\ UNCHANGED <<dbvars, conn, cand, ex, auto, mon, is_running, stop_flag,
                 retry_stop_flag, wt, hist, nApi>>

\* server.py: "if db_manager.conn: conn.commit()", then
\* DatabaseManager.close: "if self.conn:" commit, conn.close(), and
\* self.conn = None in the finally
Close ==
  IF conn = "open"
  THEN /\ inTxn' = FALSE
       /\ rows' = rows /\ disk' = rows
       /\ conn' = "closed"
  ELSE UNCHANGED <<dbvars, conn>>

CleanupClose ==
  /\ api.pc = "close"
  /\ Close
  /\ api' = ApiIdle
  /\ hist' = [hist EXCEPT !.cleanups = @ + 1]
  /\ CleanupFrame
  /\ UNCHANGED <<auto, mon, is_running, stop_flag, retry_stop_flag,
                 skipped_files, wt, nApi>>

CleanupStep ==
  \/ CleanupBegin \/ CleanupJoinRetry \/ CleanupStopMain \/ CleanupJoinMain
  \/ CleanupClear \/ CleanupClose

(***************************************************************************)
(* The program.                                                            *)
(***************************************************************************)
HistZero ==
  [batch |-> [n |-> 0, persisted |-> 0, ok |-> TRUE], partial |-> FALSE,
   touched |-> FALSE, start |-> "none", pass |-> NoPass,
   saved |-> [w \in {"w1", "w2"} |-> 0], cleanups |-> 0, input |-> FALSE]

\* ENABLE_ACTIVITY_MONITOR=false: FileIndexer has no monitor
MonitorOff ==
  [enabled |-> FALSE, pynput |-> FALSE, monitoring |-> FALSE, active |-> FALSE]

InitTrees == [Paths -> {NoFile} \cup {File(sh, 0) : sh \in FileShapes}]

\* server.py initialize(): the objects as constructed, no thread at work
Idle ==
  /\ inTxn = FALSE
  /\ call = [t \in Threads |-> NoCall]
  /\ now = 0
  /\ is_running = FALSE /\ stop_flag = FALSE
  /\ current_thread = "" /\ retry_stop_flag = FALSE
  /\ stats = StatsZero
  /\ skipped_files = <<>>
  /\ wk = [w \in Workers |-> Dead]
  /\ rt = RetryDead
  /\ wt = [watched |-> {}, queue |-> <<>>, pc |-> "idle", alive |-> TRUE,
           processing |-> {}, ev |-> NoEvent]
  /\ api = ApiIdle
  /\ hist = HistZero
  /\ conn = "open"
  /\ auto = AutoOff
  /\ cand = NoCand
  /\ ex = NoExtraction

Init ==
  /\ Idle /\ mon \in MonitorsOn \cup {MonitorOff}
  /\ rows = <<>> /\ disk = <<>>
  /\ fs \in InitTrees
  /\ nFault = MaxFaults /\ nFs = MaxFsOps /\ nStart = MaxStarts
  /\ nApi = MaxApi /\ nCycle = MaxCycles /\ nCall = 0

FsStep ==
  \/ \E p \in Paths, sh \in FileShapes, m \in Mtimes : FsCreate(p, sh, m)
  \/ \E p \in Paths, sh \in FileShapes, m \in Mtimes : FsModify(p, sh, m)
  \/ \E p \in Paths : FsDelete(p)
  \/ \E p, q \in Paths : FsMove(p, q)

Next ==
  \/ \E roots \in RootLists : StartIndexing(roots)
  \/ \E w \in Workers : WorkerStep(w)
  \/ \E w \in Workers : WResume(w)
  \/ StoreStep
  \/ RetryStep \/ RResume
  \/ UserActs \/ UserIdles
  \/ WatchStep
  \/ FsStep
  \/ ApiStep
  \/ \E roots \in RootLists : ApiStartAuto(roots)
  \/ ApiStopAuto \/ AutoWake
  \/ CleanupStep
  \/ Tick

Spec == Init /\ [][Next]_vars

(***************************************************************************)
(* SpecStore: DatabaseManager on its own.  Two client threads call its     *)
(* public methods with any arguments and in any interleaving of their SQL  *)
(* statements, which covers every caller the program has.                  *)
(***************************************************************************)
Clients == {"w1", "retry"}

Entries ==
  { <<"a", <<"x">>, 0>>, <<"b", <<"x", "y">>, 0>>, <<"a", <<"x", "y">>, MaxMtime>> }

BatchArgs ==
  { <<e>> : e \in Entries } \cup
  { << <<"a", <<"x">>, 0>>, e >> : e \in Entries \ { <<"a", <<"x">>, 0>> } }

StoreCalls ==
  { insert_files_batch(fl) : fl \in BatchArgs } \cup
  { insert_file(e[1], e[2], e[3]) : e \in Entries } \cup
  { update_file(e[1], e[2], e[3]) : e \in Entries } \cup
  { delete_file(p) : p \in Paths } \cup
  { mark_as_deleted(p) : p \in Paths } \cup
  { unmark_as_deleted(p) : p \in Paths } \cup
  { cleanup_deleted_files(d) : d \in GcDays } \cup
  { clear_index, add_search_history, optimize }

ClientFrame ==
  UNCHANGED <<dbvars, fs, now, conn, cand, ex, auto, idxvars, wk, rt, wt, nFault, nFs, nStart, nApi,
              nCycle>>

\* a client enters a DatabaseManager method
CallStore(t, c) ==
  /\ nCall > 0 /\ call[t] = NoCall
  /\ nCall' = nCall - 1
  /\ call' = [call EXCEPT ![t] = c]
  /\ ClientFrame
  /\ UNCHANGED <<api, hist>>

\* the method returned or raised
ReturnStore(t) ==
  /\ Returned(t)
  /\ call' = [call EXCEPT ![t] = NoCall]
  /\ ClientFrame
  /\ UNCHANGED <<api, hist, nCall>>

\* DatabaseManager.search, a single SELECT on the shared connection
CallSearch(q, limit) ==
  LET res == search(rows, q, limit)
  IN  /\ nCall > 0
      /\ nCall' = nCall - 1
      /\ api' = [api EXCEPT !.q = q, !.limit = limit, !.res = res]
      /\ hist' = [hist EXCEPT !.partial = ObservesPartialBatch(res, q, limit)]
      /\ call' = call
      /\ ClientFrame

\* stores the program reaches: empty, and after a pass over a and b followed
\* by the removal of b under the watcher's eyes
InitStores ==
  { <<>>,
    << NewRow("a", <<"x">>, 0),
       [NewRow("b", <<"x", "y">>, 0) EXCEPT !.deleted = "1", !.deleted_at = 0] >> }

InitStore ==
  /\ Idle /\ mon = MonitorOff
  /\ rows \in InitStores /\ disk = rows
  /\ fs = [p \in Paths |-> NoFile]
  /\ nFault = MaxFaults /\ nCall = MaxCalls
  /\ nFs = 0 /\ nStart = 0 /\ nApi = 0 /\ nCycle = 0

NextStore ==
  \/ \E t \in Clients, c \in StoreCalls : CallStore(t, c)
  \/ \E t \in Clients : ReturnStore(t)
  \/ \E q \in Queries, limit \in Limits : CallSearch(q, limit)
  \/ StoreStep
  \/ Tick

SpecStore == InitStore /\ [][NextStore]_vars

(***************************************************************************)
(* SpecPass: the user runs one indexing pass after another, each started   *)
(* when no worker is left; the index file is the one an earlier session    *)
(* left behind.  Store faults may strike.                                  *)
(***************************************************************************)
PassTrees ==
  { [p \in Paths |-> IF p = "a" THEN fa ELSE fb] :
      fa \in {NoFile} \cup {File(sh, 0) : sh \in FileShapes},
      fb \in {NoFile, File([kind |-> "ok", text |-> <<"x", "y">>, size |-> MAX_FILE_SIZE], 0),
              File([kind |-> "ok", text |-> <<"x", "y">>, size |-> MAX_FILE_SIZE], MaxMtime)} }

\* index files an earlier session leaves: none, a and b indexed, a indexed
\* and b tombstoned by the watcher
PassStores ==
  { <<>>,
    << NewRow("a", <<"x">>, 0), NewRow("b", <<"x", "y">>, 0) >>,
    << NewRow("a", <<"x">>, 0),
       [NewRow("b", <<"x", "y">>, 0) EXCEPT !.deleted = "1", !.deleted_at = 0] >> }

InitPass ==
  /\ Idle /\ mon = MonitorOff
  /\ rows \in PassStores /\ disk = rows
  /\ fs \in PassTrees
  /\ nFault = MaxFaults /\ nStart = MaxStarts
  /\ nFs = 0 /\ nApi = 0 /\ nCycle = 0 /\ nCall = 0

\* a start request made when no worker thread is left
StartWhenIdle(roots) ==
  /\ \A w \in Workers : ~Alive(w)
  /\ StartIndexing(roots)

NextPass ==
  \/ \E roots \in RootLists : StartWhenIdle(roots)
  \/ \E w \in Workers : WorkerStep(w)
  \/ StoreStep

SpecPass == InitPass /\ [][NextPass]_vars

(***************************************************************************)
(* SpecRace: start and stop requests arrive at any moment.                 *)
(***************************************************************************)
\* a was indexed by an earlier session and has been edited since, b is new
RaceTree ==
  [p \in Paths |->
     IF p = "a" THEN File([kind |-> "ok", text |-> <<"x">>, size |-> MAX_FILE_SIZE], MaxMtime)
     ELSE File([kind |-> "ok", text |-> <<"x", "y">>, size |-> MAX_FILE_SIZE], 0)]

RaceRoots == {<<"S">>, <<"S", "R">>}

InitRace ==
  /\ Idle /\ mon = MonitorOff
  /\ rows = <<NewRow("a", <<"x">>, 0)>> /\ disk = rows
  /\ fs = RaceTree
  /\ nStart = MaxStarts /\ nApi = MaxApi
  /\ nFault = 0 /\ nFs = 0 /\ nCycle = 0 /\ nCall = 0

NextRace ==
  \/ \E roots \in RaceRoots : StartIndexing(roots)
  \/ \E w \in Workers : WorkerStep(w)
  \/ StoreStep
  \/ ApiStop \/ ApiStopJoined \/ ApiStopForce

SpecRace == InitRace /\ [][NextRace]_vars

(***************************************************************************)
(* SpecLive: a session in which the user edits the tree while passes, the  *)
(* watcher and the retry worker are at work.                               *)
(***************************************************************************)
\* a is held by a slow parser at first, b is readable
LiveTree ==
  [p \in Paths |->
     IF p = "a" THEN File([kind |-> "slow", text |-> <<"x">>, size |-> MAX_FILE_SIZE], 0)
     ELSE File([kind |-> "ok", text |-> <<"x", "y">>, size |-> MAX_FILE_SIZE], 0)]

\* what the user saves: a readable file with a fresh mtime
Saved == File([kind |-> "ok", text |-> <<"x">>, size |-> MAX_FILE_SIZE], MaxMtime)

InitLive ==
  /\ Idle /\ mon = MonitorOff
  /\ rows = <<>> /\ disk = rows
  /\ fs = LiveTree
  /\ nStart = MaxStarts /\ nFs = MaxFsOps /\ nCycle = MaxCycles
  /\ nFault = 0 /\ nApi = 0 /\ nCall = 0

FsStepLive ==
  \/ \E p \in Paths : FsCreate(p, [kind |-> Saved.kind, text |-> Saved.text, size |-> Saved.size], Saved.mtime)
  \/ \E p \in Paths : FsModify(p, [kind |-> Saved.kind, text |-> Saved.text, size |-> Saved.size], Saved.mtime)
  \/ \E p \in Paths : FsDelete(p)
  \/ \E p, q \in Paths : FsMove(p, q)

NextLive ==
  \/ \E roots \in RootLists : StartWhenIdle(roots)
  \/ \E w \in Workers : WorkerStep(w)
  \/ StoreStep
  \/ RetryStep
  \/ WatchStep
  \/ FsStepLive

SpecLive == InitLive /\ [][NextLive]_vars

(***************************************************************************)
(* SpecGate: the activity monitor is enabled; the user types and pauses    *)
(* while passes run and stop requests arrive.                              *)
(***************************************************************************)
InitGate ==
  /\ Idle /\ mon \in MonitorsOn
  /\ rows = <<NewRow("a", <<"x">>, 0)>> /\ disk = rows
  /\ fs = RaceTree
  /\ nStart = MaxStarts /\ nApi = MaxApi
  /\ nFault = 0 /\ nFs = 0 /\ nCycle = 0 /\ nCall = 0

NextGate ==
  \/ \E roots \in RootLists : StartWhenIdle(roots)
  \/ \E w \in Workers : WorkerStep(w)
  \/ \E w \in Workers : WResume(w)
  \/ StoreStep
  \/ UserActs \/ UserIdles
  \/ ApiStop \/ ApiStopJoined \/ ApiStopForce

SpecGate == InitGate /\ [][NextGate]_vars

(***************************************************************************)
(* SpecRetry: a file that timed out is queued for the retry worker; the    *)
(* user releases it, starts further passes and asks for a stop.            *)
(***************************************************************************)
\* the program holding the file lets go of it: readable, fresh mtime
FsRelease(p) ==
  FsModify(p, [kind |-> Saved.kind, text |-> Saved.text, size |-> Saved.size], Saved.mtime)

InitRetry ==
  /\ Idle /\ mon = MonitorOff
  /\ rows = <<>> /\ disk = rows
  /\ fs = LiveTree
  /\ nStart = MaxStarts /\ nApi = MaxApi /\ nCycle = MaxCycles /\ nFs = MaxFsOps
  /\ nFault = 0 /\ nCall = 0

NextRetry ==
  \/ \E roots \in RootLists : StartWhenIdle(roots)
  \/ \E w \in Workers : WorkerStep(w)
  \/ StoreStep
  \/ RetryStep
  \/ \E p \in Paths : FsRelease(p)
  \/ ApiStop \/ ApiStopJoined \/ ApiStopForce

SpecRetry == InitRetry /\ [][NextRetry]_vars

(***************************************************************************)
(* SpecStop: passes over two new files with the activity monitor on, start *)
(* and stop requests at any moment; every thread that can take a step      *)
(* eventually takes one.                                                   *)
(***************************************************************************)
StopTree ==
  [p \in Paths |->
     File([kind |-> "ok", text |-> IF p = "a" THEN <<"x">> ELSE <<"x", "y">>,
           size |-> MAX_FILE_SIZE], 0)]

InitStop ==
  /\ Idle /\ mon \in MonitorsOn
  /\ rows = <<>> /\ disk = rows
  /\ fs = StopTree
  /\ nStart = MaxStarts /\ nApi = MaxApi
  /\ nFault = 0 /\ nFs = 0 /\ nCycle = 0 /\ nCall = 0

\* the steps of a pass over new files: no file of StopTree is ever found
\* modified, so update_file is never called
NewFilesStep(w) ==
  \/ WBegin(w) \/ WCollect(w) \/ WTop(w) \/ WResume(w) \/ WExtract(w)
  \/ WBatchFull(w) \/ WBatchSaved(w) \/ WFinal(w) \/ WFinalSaved(w)
  \/ WReconcile(w) \/ WReconciled(w) \/ WMaintain(w) \/ WFinish(w)

\* a statement of the store method thread t is inside
StoreStepOf(t) ==
  /\ DbStep(t)
  /\ UNCHANGED <<fs, now, conn, cand, ex, auto, idxvars, wk, rt, wt, api, nFs, nStart, nApi, nCycle, nCall>>

StopJoin == ApiStopJoined \/ ApiStopForce

NextStop ==
  \/ StartIndexing(<<"R">>)
  \/ \E w \in Workers : NewFilesStep(w)
  \/ \E w \in Workers : StoreStepOf(w)
  \/ UserActs \/ UserIdles
  \/ ApiStop \/ StopJoin

SpecStop ==
  /\ InitStop /\ [][NextStop]_vars
  /\ \A w \in Workers : WF_vars(NewFilesStep(w)) /\ WF_vars(StoreStepOf(w))
  /\ WF_vars(StopJoin)

(***************************************************************************)
(* Properties.                                                             *)
(***************************************************************************)
\* C3: every entry a search returned has deleted = false, so no tombstoned
\* entry is ever in the results, whatever store methods ran before it.
SearchReturnsOnlyLive ==
  \A i \in DOMAIN api.res : api.res[i].deleted = "0"

\* a search came back with hits while a tombstoned row matched its query
SearchSkippedTombstone ==
  /\ api.res # <<>>
  /\ \E i \in DOMAIN rows :
        rows[i].deleted = "1" /\ Matches(rows[i].content, api.q)

\* C4: in the connection's view and on disk alike, a live entry has no
\* deleted_at and a tombstoned entry has one.
TombstoneFieldsAgree ==
  \A rs \in {rows, disk} : \A i \in DOMAIN rs :
     /\ rs[i].deleted = "0" => rs[i].deleted_at = Null
     /\ rs[i].deleted = "1" => rs[i].deleted_at # Null

\* unmark_as_deleted has just cleared a tombstone that is still on disk
TombstoneCleared ==
  \E t \in Threads, i \in DOMAIN rows :
     /\ call[t].op = "unmark_as_deleted" /\ call[t].stage = "commit"
     /\ i \in DOMAIN disk
     /\ rows[i].path = call[t].p /\ disk[i].path = call[t].p
     /\ disk[i].deleted = "1" /\ rows[i].deleted = "0"

\* C1: the committed table holds at most one row for every path.
OneRowPerPath == \A p \in Paths : RowCount(disk, p) <= 1

\* C2: at most one indexing worker thread is in a crawl at any time (a start
\* made while one is, is turned away and starts no second worker).
AtMostOneCrawl == Cardinality({w \in Workers : Alive(w)}) <= 1

\* C5: no statement run by an indexing worker, the retry worker or the
\* watcher takes a path out of the committed table (reconcile keeps the row
\* and tombstones it).
OnlyGcAndClearRemove ==
  [][\A t \in Threads \ {"api"} :
       (call[t].op \notin {"none", "ret"} /\ call'[t] # call[t]) =>
         \A i \in DOMAIN disk : \E j \in DOMAIN disk' : disk'[j].path = disk[i].path]_vars

\* C6: a finished insert_files_batch call of n entries left all n or none of
\* them committed (calls whose rows another thread's UPDATE or DELETE
\* rewrote are left out of the count).
BatchAllOrNothing ==
  hist.touched \/ hist.batch.persisted \in {0, hist.batch.n}

\* C7: no search returned rows that fit neither the table without the
\* unfinished batch nor the table with all of it (searches after another
\* thread's UPDATE or DELETE rewrote the batch's rows are left out).
NoPartialBatchSeen == hist.touched \/ ~hist.partial

\* the path has a live committed row whose mtime is within a second of the
\* file's
Covered(p, table) ==
  \E i \in DOMAIN table :
     /\ table[i].path = p /\ table[i].deleted = "0"
     /\ Abs(fs[p].mtime - MtimeFloat(table[i].mtime)) < TicksPerSec

\* the files of the pass's roots with text to extract, within the size limit
Extractable(roots) ==
  { p \in Paths :
      /\ \E k \in DOMAIN roots : p \in Under(roots[k])
      /\ fs[p].exists /\ fs[p].size <= MAX_FILE_SIZE
      /\ fs[p].kind = "ok" /\ fs[p].text # <<>> }

\* C8: when a pass ends that was not cancelled (the stop flag is clear and
\* the pass never saw it set), every extractable file below its roots has a
\* live committed row with an mtime within a second of the file's.
PassCoversTree ==
  [][\A w \in Workers :
       (wk[w].pc = "optwait" /\ wk'[w].pc = "dead" /\ ~wk[w].cut /\ ~stop_flag) =>
         \A p \in Extractable(wk[w].roots) : Covered(p, disk')]_vars

\* C9 as stated: a pass that ends back-to-back after a complete pass over
\* the same roots counts no new, no modified and no deleted file.
SecondPassFindsNothing ==
  [][\A w \in Workers :
       (wk[w].pc = "optwait" /\ wk'[w].pc = "dead" /\ BackToBack(w)) =>
         /\ stats.new_files = 0
         /\ stats.modified_files = 0
         /\ stats.deleted_files = 0]_vars

\* C9 amended: a pass that ends back-to-back after a complete pass over the
\* same roots counts no new, no modified and no deleted file, when the
\* first pass left a matching live row for every collected file within the
\* size limit and no other live row.
SecondPassAfterSyncFindsNothing ==
  [][\A w \in Workers :
       (wk[w].pc = "optwait" /\ wk'[w].pc = "dead" /\ BackToBack(w)
          /\ hist.pass.synced) =>
         /\ stats.new_files = 0
         /\ stats.modified_files = 0
         /\ stats.deleted_files = 0]_vars

\* a second pass over a tree with files ended back-to-back after a pass
\* that left the table in step with the tree
SecondPassSkippedAll ==
  hist.pass.again /\ stats.total_files > 0 /\ stats.skipped_files > 0

\* the path is live again: a live row without deleted_at, and no tombstoned
\* row
Reindexed(p) ==
  /\ \E i \in DOMAIN disk :
        disk[i].path = p /\ disk[i].deleted = "0" /\ disk[i].deleted_at = Null
  /\ \A i \in DOMAIN disk : disk[i].path = p => disk[i].deleted = "0"

\* C10: when a write of the indexing worker or of the retry worker has
\* returned without error, every path it wrote is live with deleted_at
\* null and has no tombstoned row left.
ReindexClearsTombstone ==
  /\ \A w \in Workers :
        /\ (wk[w].pc \in {"batchwait", "finalwait"} /\ Returned(w) /\ call[w].ok) =>
              \A k \in DOMAIN wk[w].batch : Reindexed(wk[w].batch[k][1])
        /\ (wk[w].pc = "upd" /\ Returned(w) /\ call[w].ok) =>
              Reindexed(wk[w].all_files[wk[w].i])
  /\ (rt.pc = "wait" /\ Returned("retry") /\ call["retry"].ok) =>
        Reindexed(rt.files[rt.k])

\* C11: a file's stat/extraction work begins only in a step in which the
\* gate is off or the monitor reports idle; a gate check that finds the
\* monitor active sends the worker into wait_until_idle and adds one to
\* paused_count; a worker in wait_until_idle has paused_count >= 1, and a
\* pass that was not cancelled ends with every collected file processed.
GateBeforeWork ==
  [][\A w \in Workers :
       /\ (wk[w].pc \in {"top", "paused"}
             /\ (wk'[w].pc = "extract" \/ wk'[w].i = wk[w].i + 1))
            => ~(mon.enabled /\ mon.active)
       /\ (wk[w].pc = "top" /\ wk'[w] # wk[w] /\ mon.enabled /\ mon.active
             /\ ~stop_flag /\ wk[w].i <= Len(wk[w].all_files))
            => /\ wk'[w].pc = "paused"
               /\ stats'.paused_count = stats.paused_count + 1
       /\ wk'[w].pc = "paused" => stats'.paused_count >= 1
       /\ (wk[w].pc = "optwait" /\ wk'[w].pc = "dead" /\ ~wk[w].cut)
            => wk[w].i = Len(wk[w].all_files) + 1]_vars

\* a pass that had to wait for the user ended uncancelled with both files
\* indexed
PausedPassCompleted ==
  /\ hist.pass.done /\ ~hist.pass.cancelled
  /\ \A w \in Workers : ~Alive(w)
  /\ stats.paused_count >= 1 /\ stats.indexed_files = 2
  /\ Len(LiveRows(disk)) = 2

\* C12: when the extraction of a candidate fails for a retryable reason (the
\* safe copy fails because the file is held open, or the parser runs past
\* the timeout), the path is in skipped_files (the retry queue) when the
\* worker leaves the file, and skipped_files of the stats went up by one.
RetryableFailureQueued ==
  [][\A w \in Workers :
       LET p == wk[w].all_files[wk[w].i]
       IN  (wk[w].pc = "extract" /\ wk'[w].pc # "extract" /\ ~stop_flag
              /\ fs[p].exists /\ fs[p].kind \in {"locked", "slow"})
             => /\ \E k \in DOMAIN skipped_files' : skipped_files'[k].path = p
                /\ stats'.skipped_files = stats.skipped_files + 1]_vars

\* C13: the retry worker is there for every queued path: whenever a path is
\* in skipped_files while no indexing pass and no stop request is at work,
\* the retry worker thread is alive, so that its next cycle can upsert the
\* path and take it off the queue without a further pass, also after a
\* stop request.
QueuedPathsHaveRetryWorker ==
  (skipped_files # <<>> /\ api.pc = "idle" /\ \A w \in Workers : ~Alive(w))
    => RetryAlive

\* C14: when a pass ends, normally, after a cancel or after a failed batch
\* write, its indexed_files counter equals the number of entries the pass
\* committed to the store.
IndexedCountsCommitted ==
  [][\A w \in Workers :
       (wk[w].pc = "optwait" /\ wk'[w].pc = "dead")
         => stats.indexed_files = hist.saved[w]]_vars

\* C15: once a pass has seen the stop flag set (it broke out of the collect
\* or the process loop), it enters no further phase: it is never found
\* inside the reconcile phase or in maintenance (vacuum, optimize).
NoPhaseAfterCancel ==
  \A w \in Workers :
     wk[w].cut => wk[w].pc \notin {"recdel", "maint", "optwait"}

\* C16: a pass that is alive while the stop flag is set eventually ends,
\* and if the user eventually stays idle every pass eventually ends and
\* is_running eventually becomes false.
PassTerminates ==
  /\ \A w \in Workers : (Alive(w) /\ stop_flag) ~> ~Alive(w)
  /\ <>[](~mon.active) =>
        /\ \A w \in Workers : Alive(w) ~> ~Alive(w)
        /\ is_running ~> ~is_running

(***************************************************************************)
(* SpecShutdown: passes over a tree with a file whose extraction times     *)
(* out, the retry worker, and cleanup() invoked twice (the shutdown        *)
(* endpoint, then the at-exit hook).                                       *)
(***************************************************************************)
ShutdownTree ==
  [p \in Paths |->
     File([kind |-> IF p = "a" THEN "slow" ELSE "ok", text |-> <<"x">>,
           size |-> MAX_FILE_SIZE], MaxMtime)]

AutoOn == [AutoOff EXCEPT !.enabled = TRUE, !.pc = "wait", !.paths = <<"R">>]

InitShutdown ==
  /\ Idle /\ mon = MonitorOff
  /\ rows = <<NewRow("a", <<"x">>, 0)>> /\ disk = rows
  /\ fs = ShutdownTree
  /\ nStart = MaxStarts /\ nApi = MaxApi + 1 /\ nCycle = MaxCycles
  /\ nFs = MaxFsOps /\ nFault = 0 /\ nCall = 0

\* a start request served before the shutdown
StartBeforeCleanup(roots) ==
  /\ hist.cleanups = 0 /\ api.pc = "idle"
  /\ StartWhenIdle(roots)

NextShutdown ==
  \/ \E roots \in RootLists : StartBeforeCleanup(roots)
  \/ \E w \in Workers : WorkerStep(w)
  \/ StoreStep
  \/ RetryStep
  \/ \E p \in Paths : FsRelease(p)
  \/ CleanupStep

SpecShutdown == InitShutdown /\ [][NextShutdown]_vars

\* what a finished shutdown leaves behind
ShutDown ==
  /\ ~wt.alive
  /\ stop_flag /\ retry_stop_flag /\ auto.stop
  /\ conn = "closed" /\ ~inTxn /\ disk = rows

\* C17: every invocation of the supervisor's shutdown, the first and the
\* second alike, returns with the watcher stopped, all three stop flags set
\* and the store committed and closed, so that a second invocation changes
\* nothing and raises nothing.
ShutdownIdempotent ==
  [][(api.pc = "close" /\ api'.pc = "idle") => ShutDown']_vars

(***************************************************************************)
(* SpecAuto: auto-indexing switched on and off by requests, its thread     *)
(* waking up at its cadence, next to passes started by the user.           *)
(***************************************************************************)
InitAuto ==
  /\ Idle /\ mon = MonitorOff
  /\ rows = <<NewRow("a", <<"x">>, 0)>> /\ disk = rows
  /\ fs = RaceTree
  /\ nStart = MaxStarts /\ nApi = MaxApi + 1
  /\ nFault = 0 /\ nFs = 0 /\ nCycle = 0 /\ nCall = 0

NextAuto ==
  \/ \E roots \in RootLists : StartWhenIdle(roots)
  \/ \E w \in Workers : WorkerStep(w)
  \/ StoreStep
  \/ \E roots \in RootLists : ApiStartAuto(roots)
  \/ ApiStopAuto
  \/ AutoWake

SpecAuto == InitAuto /\ [][NextAuto]_vars

\* C18: at each cadence the auto-indexing thread issues a start over the
\* configured paths like a user would: with no pass running a worker is
\* started on those paths, and with a pass running no second one starts.
AutoWakeStartsPass ==
  [][auto'.cycles = auto.cycles + 1 =>
       /\ (~is_running /\ \A w \in Workers : ~Alive(w)) =>
             \E w \in Workers : /\ wk'[w].pc = "start"
                                 /\ wk'[w].roots = auto.paths
       /\ is_running => wk' = wk]_vars

(***************************************************************************)
(* SpecUpsert: an indexed file that is modified and times out is queued    *)
(* for the retry worker; the user saves it again while a further pass and  *)
(* the retry worker are both at work on it.  The mtime of a file never     *)
(* decreases in this specification.                                        *)
(***************************************************************************)
UpsertTree ==
  [p \in Paths |->
     IF p = "a" THEN File([kind |-> "slow", text |-> <<"x">>, size |-> MAX_FILE_SIZE], MaxMtime)
     ELSE File([kind |-> "ok", text |-> <<"x", "y">>, size |-> MAX_FILE_SIZE], 0)]

\* the user saves the file: readable, its mtime one tick later
FsSave(p) ==
  /\ fs[p].mtime <= MaxMtime
  /\ FsModify(p, [kind |-> "ok", text |-> <<"x", "y">>, size |-> MAX_FILE_SIZE],
              fs[p].mtime + 1)

InitUpsert ==
  /\ Idle /\ mon = MonitorOff
  /\ rows = <<NewRow("a", <<"x">>, 0)>> /\ disk = rows
  /\ fs = UpsertTree
  /\ nStart = MaxStarts /\ nCycle = MaxCycles /\ nFs = MaxFsOps
  /\ nApi = 0 /\ nFault = 0 /\ nCall = 0

NextUpsert ==
  \/ \E roots \in RootLists : StartWhenIdle(roots)
  \/ \E w \in Workers : WorkerStep(w)
  \/ StoreStep
  \/ RetryStep
  \/ \E p \in Paths : FsSave(p)

SpecUpsert == InitUpsert /\ [][NextUpsert]_vars

\* C19: for every path, the stat carried by the committed row never goes
\* back: an upsert committed later (by an indexing worker, the retry worker
\* or the watcher) carries an mtime that is not older than the one an
\* earlier committed upsert left for the path.
LaterUpsertLaterStat ==
  [][\A p \in Paths :
       (get_file_mtime(disk, p) # Null /\ get_file_mtime(disk', p) # Null)
         => get_file_mtime(disk', p) >= get_file_mtime(disk, p)]_vars

(***************************************************************************)
(* SpecWatch: root R is watched (an earlier start registered it), file a   *)
(* is indexed; the user creates, modifies, deletes and moves files and     *)
(* the observer's dispatch thread runs the handlers.                       *)
(***************************************************************************)
WatchTree ==
  [p \in Paths |->
     IF p = "a" THEN File([kind |-> "ok", text |-> <<"x">>, size |-> MAX_FILE_SIZE], 0)
     ELSE NoFile]

InitWatch ==
  /\ inTxn = FALSE /\ conn = "open" /\ cand = NoCand /\ ex = NoExtraction
  /\ call = [t \in Threads |-> NoCall]
  /\ now = 0
  /\ is_running = FALSE /\ stop_flag = FALSE
  /\ current_thread = "w1" /\ retry_stop_flag = FALSE
  /\ stats = StatsZero /\ skipped_files = <<>>
  /\ wk = [w \in Workers |-> Dead] /\ rt = RetryDead
  /\ wt = [watched |-> {"R"}, queue |-> <<>>, pc |-> "idle", alive |-> TRUE,
           processing |-> {}, ev |-> NoEvent]
  /\ api = ApiIdle /\ hist = HistZero
  /\ mon = MonitorOff /\ auto = AutoOff
  /\ rows = <<NewRow("a", <<"x">>, 0)>> /\ disk = rows
  /\ fs = WatchTree
  /\ nFs = MaxFsOps
  /\ nFault = 0 /\ nStart = 0 /\ nApi = 0 /\ nCycle = 0 /\ nCall = 0

NextWatch ==
  \/ FsStep
  \/ WatchStep
  \/ StoreStep

SpecWatch == InitWatch /\ [][NextWatch]_vars

\* C20: at most one watcher handler invocation is processing a path at any
\* time: the in-flight set holds exactly the paths of the one handler that
\* is past its membership test, the test's outcome still holds when the
\* paths are inserted, and no path stays in the set once the handler has
\* returned, whichever way it left.
OneHandlerPerPath ==
  /\ wt.pc = "idle" => wt.processing = {} /\ wt.ev = NoEvent
  /\ wt.pc = "tested" => /\ wt.ev.type = "moved"
                         /\ wt.processing \cap {wt.ev.src, wt.ev.dst} = {}
  /\ wt.pc = "busy" =>
        wt.processing = IF wt.ev.type = "moved" THEN {wt.ev.src, wt.ev.dst} ELSE {}

\* the handler of a move is at work on both paths while a further event
\* for one of them waits in the observer's queue
MoveInFlightEventPending ==
  /\ wt.pc = "busy" /\ wt.ev.type = "moved"
  /\ wt.processing = {"a", "b"}
  /\ wt.queue # <<>> /\ Head(wt.queue).src \in wt.processing

(***************************************************************************)
(* SpecGc: file b was tombstoned and indexed again (an old tombstone next  *)
(* to a live row); root R is watched.  The user deletes files while a      *)
(* POST /api/cleanup/deleted-files is served and time passes.              *)
(***************************************************************************)
GcTree ==
  [p \in Paths |-> File([kind |-> "ok", text |-> <<"x">>, size |-> MAX_FILE_SIZE], 0)]

GcStore ==
  << NewRow("a", <<"x">>, 0),
     [NewRow("b", <<"x">>, 0) EXCEPT !.deleted = "1", !.deleted_at = 0],
     NewRow("b", <<"x">>, 0) >>

InitGc ==
  /\ inTxn = FALSE /\ conn = "open" /\ cand = NoCand /\ ex = NoExtraction
  /\ call = [t \in Threads |-> NoCall]
  /\ now = 0
  /\ is_running = FALSE /\ stop_flag = FALSE
  /\ current_thread = "w1" /\ retry_stop_flag = FALSE
  /\ stats = StatsZero /\ skipped_files = <<>>
  /\ wk = [w \in Workers |-> Dead] /\ rt = RetryDead
  /\ wt = [watched |-> {"R"}, queue |-> <<>>, pc |-> "idle", alive |-> TRUE,
           processing |-> {}, ev |-> NoEvent]
  /\ api = ApiIdle /\ hist = HistZero
  /\ mon = MonitorOff /\ auto = AutoOff
  /\ rows = GcStore /\ disk = rows
  /\ fs = GcTree
  /\ nFs = MaxFsOps /\ nApi = MaxApi
  /\ nFault = 0 /\ nStart = 0 /\ nCycle = 0 /\ nCall = 0

NextGc ==
  \/ \E d \in GcDays : ApiGc(d)
  \/ ApiDbDone
  \/ \E p \in Paths : FsDelete(p)
  \/ WatchDeleted \/ WatchDone
  \/ StoreStep
  \/ Tick

SpecGc == InitGc /\ [][NextGc]_vars

\* C21: a row that a DELETE of cleanup_deleted_files removes is, at that
\* moment, a tombstone whose deleted_at is older than the threshold: never a
\* live row and never a younger tombstone, whatever happened to the entry
\* since the sweep selected it.
GcRemovesOnlyOldTombstones ==
  [][\A t \in Threads :
       (call[t].op = "cleanup_deleted_files" /\ call[t].stage = "del"
          /\ call'[t] # call[t])
       => \A i \in DOMAIN rows :
            (\A j \in DOMAIN rows' : rows'[j] # rows[i])
              => /\ rows[i].deleted = "1"
                 /\ rows[i].deleted_at # Null
                 /\ rows[i].deleted_at < now - call[t].m]_vars

(***************************************************************************)
(* SpecSize: passes and the retry worker over files that the user saves    *)
(* at 100 MiB or at 100 MiB + 1 byte.                                      *)
(***************************************************************************)
\* the user saves the file with the given size: readable, fresh mtime
FsResize(p, size) ==
  FsModify(p, [kind |-> "ok", text |-> <<"x", "y">>, size |-> size], MaxMtime)

NextSize ==
  \/ \E roots \in RootLists : StartWhenIdle(roots)
  \/ \E w \in Workers : WorkerStep(w)
  \/ StoreStep
  \/ RetryStep
  \/ \E p \in Paths, size \in Sizes : FsResize(p, size)

SpecSize == InitUpsert /\ [][NextSize]_vars

\* C22: a candidate is skipped for its size if and only if the size is
\* strictly greater than 100 MiB, in the indexing worker and in the retry
\* worker alike: a file above the cap is counted as skipped (or its retry
\* record is removed), nothing is written for it and it is not queued for
\* retry; a file of exactly 100 MiB goes on to extraction.
SizeCapStrict ==
  [][/\ \A w \in Workers :
          LET l == wk[w]
              p == l.all_files[l.i]
          IN  (l.pc = "top" /\ wk'[w] # l /\ ~stop_flag /\ l.i <= Len(l.all_files)
                 /\ fs[p].exists)
              => IF fs[p].size > MAX_FILE_SIZE
                 THEN /\ wk'[w] = [l EXCEPT !.i = l.i + 1]
                      /\ stats'.skipped_files = stats.skipped_files + 1
                      /\ stats'.indexed_files = stats.indexed_files
                      /\ skipped_files' = skipped_files
                      /\ call'[w] = call[w] /\ rows' = rows
                 ELSE (fs[p].size = MAX_FILE_SIZE
                         /\ ~Unchanged(fs[p].mtime, get_file_mtime(rows, p)))
                      => wk'[w].pc = "extract"
     /\ LET p == rt.files[rt.k]
        IN  (rt.pc = "item" /\ rt' # rt /\ rt.k <= Len(rt.files) /\ ~retry_stop_flag
               /\ fs[p].exists)
            => IF fs[p].size > MAX_FILE_SIZE
               THEN /\ skipped_files' = RemoveSkipped(skipped_files, p)
                    /\ call'["retry"] = call["retry"] /\ rows' = rows
               ELSE (fs[p].size = MAX_FILE_SIZE /\ fs[p].kind = "ok")
                    => call'["retry"].op \in {"insert_file", "update_file"}]_vars

\* the retry worker has dropped the record of a file that grew past the cap,
\* and a file of exactly 100 MiB is indexed
OversizeSkippedAndDropped ==
  /\ rt.pc = "item" /\ rt.k = 2 /\ fs[rt.files[1]].size > MAX_FILE_SIZE
  /\ skipped_files = <<>>
  /\ \E p \in Paths : fs[p].size = MAX_FILE_SIZE /\ is_file_indexed(disk, p)

(***************************************************************************)
(* SpecSearch: searches and store calls on a store in which b was indexed  *)
(* before a, as a pass over S followed by a pass over R leaves it.         *)
(***************************************************************************)
SearchStores ==
  { << NewRow("b", t, 0), NewRow("a", <<"x">>, 0) >> : t \in Texts }

InitSearch ==
  /\ Idle /\ mon = MonitorOff
  /\ rows \in SearchStores /\ disk = rows
  /\ fs = [p \in Paths |-> NoFile]
  /\ nFault = MaxFaults /\ nCall = MaxCalls
  /\ nFs = 0 /\ nStart = 0 /\ nApi = 0 /\ nCycle = 0

SpecSearch == InitSearch /\ [][NextStore]_vars

\* the order of paths as strings
PathOrd(p) == IF p = "a" THEN 1 ELSE 2

\* the step is a search: CallSearch
IsSearch == nCall' < nCall /\ call' = call

Tombstoned(rs, p) ==
  /\ \E i \in DOMAIN rs : rs[i].path = p
  /\ \A i \in DOMAIN rs :
        rs[i].path = p => rs[i].deleted = "1" /\ rs[i].deleted_at # Null

\* C24: when the watcher handles a Delete event for p and p is live, p is
\* tombstoned when the handler returns (deleted = true, deleted_at set, the
\* row retained); when p is absent or already tombstoned, the handler leaves
\* the store as it is: no row is created and deleted_at is not refreshed.
DeleteEventTombstones ==
  [][/\ (wt.pc = "busy" /\ wt.ev.type = "deleted" /\ wt'.pc = "idle")
          => Tombstoned(rows', wt.ev.src) /\ Tombstoned(disk', wt.ev.src)
     /\ (wt.pc = "idle" /\ wt.queue # <<>> /\ wt' # wt
           /\ Head(wt.queue).type = "deleted"
           /\ ~is_file_indexed(rows, Head(wt.queue).src))
          => rows' = rows /\ disk' = disk /\ call'["watch"] = NoCall /\ wt'.pc = "idle"]_vars

(***************************************************************************)
(* The watcher's Move event.                                               *)
(***************************************************************************)
\* C25: when the watcher has handled a Move event src -> dst, src is not live
\* and, dst being a supported, not excluded file whose text can be extracted,
\* dst has a live entry holding the extracted content.
MoveEventReindexesDestination ==
  [][(wt.pc = "busy" /\ wt.ev.type = "moved" /\ wt'.pc = "idle")
       => LET src == wt.ev.src
              dst == wt.ev.dst
          IN  /\ ~is_file_indexed(rows', src)
              /\ (fs[dst].exists /\ fs[dst].kind = "ok")
                   => \E i \in DOMAIN rows' :
                         /\ rows'[i].path = dst /\ rows'[i].deleted = "0"
                         /\ rows'[i].content = fs[dst].text]_vars

(***************************************************************************)
(* SpecFilter: the crawler's and the watcher's decision on one file name.  *)
(***************************************************************************)
\* what the filters look at in a path.  An Office temp name starts with "~",
\* which is not alphanumeric.
Names ==
  { n \in [valid  : BOOLEAN,      \* _is_valid_name(filename)
           temp   : BOOLEAN,      \* filename starts with "~$" or "~WRL"
           exfile : BOOLEAN,      \* filename in EXCLUDED_FILES
           ext    : {"text", "doc", "excluded", "other"},
           exdir  : BOOLEAN,      \* a directory of the path is in EXCLUDED_DIRS
           prefix : BOOLEAN,      \* the path starts with an EXCLUDED_PATH_PREFIXES
           glob   : BOOLEAN] :    \* the path matches a custom_excluded_patterns
      n.temp => ~n.valid }

\* _collect_files: os.walk does not descend into a directory that
\* _should_include_dir rejects
_should_include_dir(n) == ~n.exdir /\ ~n.prefix

_should_include_file(n) ==
  /\ n.valid
  /\ ~n.temp
  /\ ~n.exfile
  /\ n.ext # "excluded"
  /\ n.ext \in {"text", "doc"}
  /\ ~n.prefix
  /\ ~n.glob

\* the crawler's ExclusionFilter
include(n) == _should_include_dir(n) /\ _should_include_file(n)

\* FileIndexer has no attribute SUPPORTED_IMAGE_EXTENSIONS
SupportedExtsRaises == TRUE

\* IndexedFileWatcher._is_supported_file
_is_supported_file(n) ==
  IF SupportedExtsRaises THEN "raise"
  ELSE IF n.ext \in {"text", "doc"} THEN "yes" ELSE "no"

\* IndexedFileWatcher._should_exclude
_should_exclude(n) == n.exdir \/ n.ext = "excluded"

\* on_created / on_moved:
\* "if not self._is_supported_file(p) or self._should_exclude(p): return"
WatcherDecision(n) ==
  CASE _is_supported_file(n) = "raise" -> "raise"
    [] _is_supported_file(n) = "no"    -> "drop"
    [] OTHER -> IF _should_exclude(n) THEN "drop" ELSE "accept"

FilterFrame ==
  UNCHANGED <<dbvars, call, fs, now, conn, ex, auto, idxvars, wk, rt, wt, api, hist, cntvars>>

\* _collect_files meets the file
CrawlerDecides ==
  /\ cand.crawl = "none"
  /\ cand' = [cand EXCEPT !.crawl = IF include(cand.name) THEN "include" ELSE "drop"]
  /\ FilterFrame

\* the watcher gets a Create event (or a Move with this destination)
WatcherDecides ==
  /\ cand.watch = "none"
  /\ cand' = [cand EXCEPT !.watch = WatcherDecision(cand.name)]
  /\ FilterFrame

InitFilter ==
  /\ inTxn = FALSE /\ conn = "open" /\ ex = NoExtraction
  /\ call = [t \in Threads |-> NoCall]
  /\ now = 0
  /\ is_running = FALSE /\ stop_flag = FALSE
  /\ current_thread = "" /\ retry_stop_flag = FALSE
  /\ stats = StatsZero /\ skipped_files = <<>>
  /\ wk = [w \in Workers |-> Dead] /\ rt = RetryDead
  /\ wt = [watched |-> {"R"}, queue |-> <<>>, pc |-> "idle", alive |-> TRUE,
           processing |-> {}, ev |-> NoEvent]
  /\ api = ApiIdle /\ hist = HistZero
  /\ mon = MonitorOff /\ auto = AutoOff
  /\ rows = <<>> /\ disk = rows
  /\ fs = [p \in Paths |-> NoFile]
  /\ \E n \in Names : cand = [name |-> n, crawl |-> "none", watch |-> "none"]
  /\ nFault = 0 /\ nFs = 0 /\ nStart = 0 /\ nApi = 0 /\ nCycle = 0 /\ nCall = 0

NextFilter == CrawlerDecides \/ WatcherDecides

SpecFilter == InitFilter /\ [][NextFilter]_vars

\* C26: the watcher accepts a created file (or a move destination) exactly
\* when the crawler's ExclusionFilter includes the path.
WatcherFilterIsCrawlerFilter ==
  (cand.crawl # "none" /\ cand.watch # "none")
    => (cand.watch = "accept" <=> cand.crawl = "include")

(***************************************************************************)
(* One retry of one queued path.                                           *)
(***************************************************************************)
\* the retry_count of p's record, Null when p has no record
RetryCount(sf, p) ==
  IF \E i \in DOMAIN sf : sf[i].path = p
  THEN (CHOOSE e \in Range(sf) : e.path = p).retry_count
  ELSE Null

\* the retry worker takes the next path of its snapshot past the stop check
\* and the gate
RetryTakes ==
  \/ rt.pc = "item" /\ rt.k <= Len(rt.files) /\ ~retry_stop_flag /\ ~GateActive
       /\ rt' # rt
  \/ rt.pc = "paused" /\ ~mon.active /\ rt' # rt

\* C27: in a retry cycle, for each queued path: when the file is gone or
\* larger than 100 MiB, the record is removed and the store is not modified;
\* when re-extraction and the store write succeed, the path has a live entry
\* and the record is removed; when the retry fails (extraction yields
\* nothing, or the write raises), the record stays and its retry_count grows
\* by exactly 1.
RetryOutcome ==
  [][/\ RetryTakes =>
          LET p == rt.files[rt.k]
              f == fs[p]
          IN  /\ (~f.exists \/ f.size > MAX_FILE_SIZE)
                   => /\ RetryCount(skipped_files', p) = Null
                      /\ rows' = rows /\ call' = call
              /\ (f.exists /\ f.size <= MAX_FILE_SIZE /\ ExtractText(f) = <<>>
                    /\ RetryCount(skipped_files, p) # Null)
                   => RetryCount(skipped_files', p) = RetryCount(skipped_files, p) + 1
     /\ (rt.pc = "wait" /\ rt'.pc = "item") =>
          LET p == rt.files[rt.k]
          IN  IF call["retry"].ok
              THEN is_file_indexed(rows', p) /\ RetryCount(skipped_files', p) = Null
              ELSE RetryCount(skipped_files, p) # Null
                     => RetryCount(skipped_files', p) = RetryCount(skipped_files, p) + 1]_vars

(***************************************************************************)
(* SpecRetryGate: the activity monitor is enabled and pynput is installed; *)
(* the user types and pauses while passes and the retry worker run.        *)
(* hist.input records whether an input event occurred within the idle     *)
(* threshold, heard by a listener or not.                                  *)
(***************************************************************************)
InputFrame ==
  UNCHANGED <<dbvars, call, fs, now, conn, cand, ex, auto, is_running, stop_flag,
              current_thread, retry_stop_flag, stats, skipped_files, wk, rt, wt, api,
              cntvars>>

\* a key or mouse event: _on_activity runs only while the listeners run
KeyPressed ==
  /\ ~hist.input
  /\ hist' = [hist EXCEPT !.input = TRUE]
  /\ mon' = IF mon.monitoring THEN [mon EXCEPT !.active = TRUE] ELSE mon
  /\ InputFrame

\* idle_threshold seconds pass without an input event
NoInput ==
  /\ hist.input \/ mon.active
  /\ hist' = [hist EXCEPT !.input = FALSE]
  /\ mon' = [mon EXCEPT !.active = FALSE]
  /\ InputFrame

InitRetryGate ==
  /\ Idle
  /\ mon = [enabled |-> TRUE, pynput |-> TRUE, monitoring |-> FALSE, active |-> FALSE]
  /\ rows = <<>> /\ disk = rows
  /\ fs = LiveTree
  /\ nStart = MaxStarts /\ nCycle = MaxCycles /\ nFs = MaxFsOps
  /\ nFault = 0 /\ nCall = 0 /\ nApi = 0

NextRetryGate ==
  \/ \E roots \in RootLists : StartWhenIdle(roots)
  \/ \E w \in Workers : WorkerStep(w)
  \/ \E w \in Workers : WResume(w)
  \/ StoreStep
  \/ RetryStep \/ RResume
  \/ \E p \in Paths : FsRelease(p)
  \/ KeyPressed \/ NoInput

SpecRetryGate == InitRetryGate /\ [][NextRetryGate]_vars

\* C28: the retry worker never begins the re-extraction of a path while the
\* user is active (an input event occurred within the idle threshold), also
\* when no indexing pass is running.
RetryWaitsForIdleUser ==
  [][(/\ rt.pc \in {"item", "paused"} /\ rt' # rt
      /\ rt.k <= Len(rt.files)
      /\ rt'.pc = "wait" \/ (rt'.pc = "item" /\ rt'.k = rt.k + 1)
      /\ fs[rt.files[rt.k]].exists /\ ~SizeExceeded(fs[rt.files[rt.k]]))
       => ~hist.input]_vars

(***************************************************************************)
(* The candidate list of a pass.                                           *)
(***************************************************************************)
\* C29: the candidate list of a pass contains no path twice, whatever the
\* root list (roots given twice, a root nested in another), so that a pass
\* processes each path at most once.
CandidatesDistinct ==
  \A w \in Workers :
     \A i, j \in DOMAIN wk[w].all_files :
        wk[w].all_files[i] = wk[w].all_files[j] => i = j

(***************************************************************************)
(* A batch write that fails.                                               *)
(***************************************************************************)
\* C30: when insert_files_batch raises, no entry of the batch is persisted,
\* every path of the batch is recorded as errored (error_files grows by the
\* size of the batch, and the entries are not counted as indexed), and the
\* worker goes on with the remaining files.
FailedBatchIsErrored ==
  [][\A w \in Workers :
       (/\ wk[w].pc \in {"batchwait", "finalwait"} /\ wk'[w].pc # wk[w].pc
        /\ Returned(w) /\ ~call[w].ok)
         => /\ hist.touched \/ hist.batch.persisted = 0
            /\ stats'.error_files = stats.error_files + Len(wk[w].batch)
            /\ stats'.indexed_files = stats.indexed_files - Len(wk[w].batch)
            /\ wk'[w].pc \in {"top", "reconcile"} /\ wk'[w].batch = <<>>]_vars

(***************************************************************************)
(* SpecFault: passes over a tree from which the user removes files while   *)
(* they run, with store faults.                                            *)
(***************************************************************************)
InitFault ==
  /\ Idle /\ mon = MonitorOff
  /\ rows \in PassStores /\ disk = rows
  /\ fs \in PassTrees
  /\ nFault = MaxFaults /\ nStart = MaxStarts /\ nFs = MaxFsOps
  /\ nApi = 0 /\ nCycle = 0 /\ nCall = 0

NextFault ==
  \/ \E roots \in RootLists : StartWhenIdle(roots)
  \/ \E w \in Workers : WorkerStep(w)
  \/ StoreStep
  \/ \E p \in Paths : FsDelete(p)

SpecFault == InitFault /\ [][NextFault]_vars

\* C31: a fault while one candidate is processed (the stat raises because the
\* file is gone, the extraction fails, update_file raises) is contained at
\* that file: the file is counted as errored or skipped and the worker goes
\* to the next candidate; absent a stop request the loop is left only at the
\* end of the list, and the pass ends only through reconcile and maintenance.
FaultContainedAtFile ==
  [][\A w \in Workers :
       LET l == wk[w]
           p == l.all_files[l.i]
           next == [l EXCEPT !.pc = "top", !.i = l.i + 1]
       IN  /\ (l.pc = "top" /\ wk'[w] # l /\ ~stop_flag /\ l.i <= Len(l.all_files)
                 /\ ~fs[p].exists)
                => wk'[w] = next /\ stats'.error_files = stats.error_files + 1
           /\ (l.pc = "extract" /\ wk'[w] # l /\ ~stop_flag /\ ExtractText(fs[p]) = <<>>)
                => wk'[w] = next /\ stats'.skipped_files = stats.skipped_files + 1
           /\ (l.pc = "upd" /\ wk'[w] # l /\ ~call[w].ok)
                => wk'[w] = next /\ stats'.error_files = stats.error_files + 1
           /\ (l.pc \in {"top", "extract", "upd", "batchfull", "batchwait"}
                 /\ wk'[w].pc = "final" /\ ~stop_flag)
                => l.i > Len(l.all_files)
           /\ (l.pc = "final" /\ wk'[w] # l) => wk'[w].pc \in {"finalwait", "reconcile"}
           /\ (l.pc = "finalwait" /\ wk'[w] # l) => wk'[w].pc = "reconcile"
           /\ (l.pc # "dead" /\ wk'[w].pc = "dead") => l.pc = "optwait"]_vars

\* a pass whose first candidate a vanished before its stat has indexed the
\* later candidate b and is in maintenance
FaultThenIndexed ==
  \E w \in Workers :
     /\ wk[w].pc = "optwait" /\ ~wk[w].cut
     /\ wk[w].all_files = <<"a", "b">> /\ ~fs["a"].exists
     /\ stats.error_files >= 1 /\ stats.indexed_files >= 1
     /\ is_file_indexed(disk, "b")

(***************************************************************************)
(* The unchanged / modified / new decision.                                *)
(***************************************************************************)
\* C32: a discovered file with a live stored mtime is treated as unchanged
\* (counted as skipped, no extraction, no store write) if and only if the
\* current and the stored mtime differ by less than 1.0 s; at exactly 1.0 s
\* or more it is classified modified and goes to extraction; a file with no
\* live stored mtime is classified new.
MtimeDecision ==
  [][\A w \in Workers :
       LET l == wk[w]
           p == l.all_files[l.i]
           stored == get_file_mtime(rows, p)
       IN  (/\ l.pc = "top" /\ wk'[w] # l /\ ~stop_flag /\ l.i <= Len(l.all_files)
            /\ fs[p].exists /\ fs[p].size <= MAX_FILE_SIZE)
           => IF stored = Null
              THEN /\ wk'[w].pc = "extract" /\ wk'[w].is_new
                   /\ stats'.new_files = stats.new_files + 1
              ELSE IF Abs(fs[p].mtime - stored) < TicksPerSec
              THEN /\ wk'[w] = [l EXCEPT !.i = l.i + 1]
                   /\ stats'.skipped_files = stats.skipped_files + 1
                   /\ stats'.modified_files = stats.modified_files
                   /\ call' = call /\ rows' = rows
              ELSE /\ wk'[w].pc = "extract" /\ ~wk'[w].is_new
                   /\ stats'.modified_files = stats.modified_files + 1]_vars

\* a pass took a, one second from its stored mtime, as modified and b, half
\* a second from its stored mtime, as unchanged
SecondApartModifiedHalfUnchanged ==
  \E w \in Workers :
     /\ wk[w].all_files = <<"a", "b">> /\ wk[w].i = 3
     /\ rows = disk /\ get_file_mtime(rows, "a") # Null /\ get_file_mtime(rows, "b") # Null
     /\ Abs(fs["a"].mtime - get_file_mtime(rows, "a")) = TicksPerSec
     /\ Abs(fs["b"].mtime - get_file_mtime(rows, "b")) = 1
     /\ stats.modified_files = 1 /\ stats.new_files = 0 /\ stats.skipped_files = 2

(***************************************************************************)
(* SpecTemp: _extract_text_safe as its callers (a worker, the retry        *)
(* worker) run it: with_timeout starts a daemon thread for _extract_text   *)
(* and joins it for PARSE_TIMEOUT seconds; the thread copies the file into *)
(* a directory made by tempfile.mkdtemp, parses the copy and removes the   *)
(* directory in its finally.                                               *)
(***************************************************************************)
MaxExtractions == 2

Extractors == {"w1", "retry"}

TempFrame ==
  UNCHANGED <<dbvars, call, fs, now, conn, cand, auto, idxvars, wk, rt, wt, api, hist,
              cntvars>>

\* extract(): thread.start()
ExBegin(t, p) ==
  /\ ex.th[t].pc = "idle" /\ ex.n < MaxExtractions
  /\ ex' = [ex EXCEPT !.th[t] = [pc |-> "copy", p |-> p, dir |-> 0, out |-> "none"]]
  /\ TempFrame

\* _copy_to_temp in the thread: mkdtemp, then the copy; when both ways of
\* copying fail the directory is removed and the extractor returns None
ExCopy(t) ==
  LET f == fs[ex.th[t].p]
      d == ex.n + 1
  IN  /\ ex.th[t].pc = "copy"
      /\ ex' = IF f.exists /\ f.kind # "locked"
               THEN [ex EXCEPT !.n = d, !.dirs = @ \cup {d},
                               !.th[t].pc = "parse", !.th[t].dir = d]
               ELSE [ex EXCEPT !.n = d, !.th[t].pc = "done", !.th[t].dir = d,
                               !.th[t].out = "failure"]
      /\ TempFrame

\* the parser returns or raises within the timeout; the finally of the
\* extractor runs _cleanup_temp
ExParse(t) ==
  LET f == fs[ex.th[t].p]
  IN  /\ ex.th[t].pc = "parse" /\ f.kind # "slow"
      /\ ex' = [ex EXCEPT !.dirs = @ \ {ex.th[t].dir}, !.th[t].pc = "done",
                          !.th[t].out = IF f.kind = "ok" THEN "text" ELSE "failure"]
      /\ TempFrame

\* thread.join(timeout) returned and the thread is not alive: the wrapper
\* returns what the thread left
ExReturn(t) ==
  /\ ex.th[t].pc = "done"
  /\ ex' = [ex EXCEPT !.th[t].pc = "idle"]
  /\ TempFrame

\* thread.join(timeout) returned and the thread is alive: TimeoutError is
\* raised, _extract_text_safe returns None; the daemon thread runs on
ExTimeout(t) ==
  /\ ex.th[t].pc = "parse" /\ fs[ex.th[t].p].kind = "slow"
  /\ ex' = [ex EXCEPT !.th[t].pc = "idle", !.th[t].out = "timeout",
                      !.orphans = @ \cup {ex.th[t].dir}]
  /\ TempFrame

\* the abandoned thread's parser comes back at last: its finally removes the
\* directory
ExOrphanEnds(d) ==
  /\ d \in ex.orphans
  /\ ex' = [ex EXCEPT !.orphans = @ \ {d}, !.dirs = @ \ {d}]
  /\ TempFrame

InitTemp ==
  /\ inTxn = FALSE /\ conn = "open" /\ ex = NoExtraction /\ cand = NoCand
  /\ call = [t \in Threads |-> NoCall]
  /\ now = 0
  /\ is_running = FALSE /\ stop_flag = FALSE
  /\ current_thread = "" /\ retry_stop_flag = FALSE
  /\ stats = StatsZero /\ skipped_files = <<>>
  /\ wk = [w \in Workers |-> Dead] /\ rt = RetryDead
  /\ wt = [watched |-> {}, queue |-> <<>>, pc |-> "idle", alive |-> TRUE,
           processing |-> {}, ev |-> NoEvent]
  /\ api = ApiIdle /\ hist = HistZero
  /\ mon = MonitorOff /\ auto = AutoOff
  /\ rows = <<>> /\ disk = rows
  /\ fs \in PassTrees
  /\ nFault = 0 /\ nFs = 0 /\ nStart = 0 /\ nApi = 0 /\ nCycle = 0 /\ nCall = 0

NextTemp ==
  \/ \E t \in Extractors, p \in Paths : ExBegin(t, p)
  \/ \E t \in Extractors : ExCopy(t)
  \/ \E t \in Extractors : ExParse(t)
  \/ \E t \in Extractors : ExReturn(t)
  \/ \E t \in Extractors : ExTimeout(t)
  \/ \E d \in 1..MaxExtractions : ExOrphanEnds(d)

SpecTemp == InitTemp /\ [][NextTemp]_vars

\* C33: each extraction gets a fresh temporary directory of its own, and
\* when the wrapper returns to its caller (with text, with a failure or with
\* a timeout) the directory made for that extraction no longer exists.
NoTempAfterExtraction ==
  [][\A t \in Extractors :
       /\ (ex.th[t].pc = "copy" /\ ex'.th[t].pc # "copy")
            => /\ ex'.th[t].dir \notin ex.dirs
               /\ \A u \in Extractors \ {t} : ex.th[u].dir # ex'.th[t].dir
       /\ (ex.th[t].pc # "idle" /\ ex'.th[t].pc = "idle")
            => ex'.th[t].dir \notin ex'.dirs]_vars

\* the files below the roots a pass was started with
UnderRoots(roots) == UNION {Under(roots[i]) : i \in DOMAIN roots}

\* C34: the reconcile phase never removes the entry of a file that still
\* exists below one of the roots of the pass (every file of the model passes
\* the filter), also when the collect phase was cut short by a stop request
\* and the list of candidates is incomplete.
ReconcileKeepsPresentFiles ==
  \A w \in Workers :
     wk[w].pc = "recdel"
       => ~(fs[wk[w].del[1]].exists /\ wk[w].del[1] \in UnderRoots(wk[w].roots))

\* C35: a pass over the roots R leaves every entry whose path lies outside
\* all roots of R alone: no store method the worker calls (delete_file in
\* the reconcile phase, the upserts of the process loop) names such a path.
PassTouchesOnlyItsRoots ==
  \A w \in Workers :
     (Alive(w) /\ call[w] # NoCall /\ call[w].p \in Paths)
       => call[w].p \in UnderRoots(wk[w].roots)

\* an event still queued that would index p again
QueuedUpsert(q, p) ==
  \E i \in DOMAIN q :
     \/ q[i].type \in {"created", "modified"} /\ q[i].src = p
     \/ q[i].type = "moved" /\ q[i].dst = p

\* the step with which the watcher's handler for a Delete event of p ends
DeleteHandled(p) ==
  \/ wt.pc = "busy" /\ wt.ev.type = "deleted" /\ wt.ev.src = p /\ wt'.pc = "idle"
  \/ /\ wt.pc = "idle" /\ wt.queue # <<>> /\ wt'.pc = "idle"
     /\ Head(wt.queue).type = "deleted" /\ Head(wt.queue).src = p
     /\ wt'.queue = Tail(wt.queue)

StopReachesAcceptedPass ==
  [][/\ (api.pc = "idle" /\ nApi' < nApi /\ \E w \in Workers : Alive(w))
          => stop_flag'
     /\ (stop_flag /\ ~stop_flag')
          => \A w \in Workers : Alive(w) => wk[w].cut]_vars

\* C38: once the supervisor's shutdown has returned, no indexing worker, no
\* retry worker and no auto-indexing thread is running or is started later,
\* and nothing is written to the store after it was closed.
NothingRunsAfterShutdown ==
  /\ [](hist.cleanups > 0 =>
          /\ \A w \in Workers : ~Alive(w)
          /\ ~RetryAlive
          /\ auto.pc = "dead")
  /\ [][conn = "closed" => (rows' = rows /\ disk' = disk)]_vars

\* C39: when a pass that was not cancelled ends, every candidate has been
\* counted in exactly one of indexed, skipped and errored: the three add up
\* to the number of files discovered, and new + modified >= indexed.
CountersAddUp ==
  [][\A w \in Workers :
       (wk[w].pc = "optwait" /\ wk'[w].pc = "dead" /\ ~wk[w].cut)
         => /\ stats'.total_files
                 = stats'.indexed_files + stats'.skipped_files + stats'.error_files
            /\ stats'.new_files + stats'.modified_files >= stats'.indexed_files]_vars

=========================================================================
